---- MODULE Spec2Model ----
(***************************************************************************)
(* Meaningfull AI preview: the generation session controller.              *)
(*                                                                         *)
(* The repository holds four request handlers, each its own serverless     *)
(* module with its own in-memory quota map:                                *)
(*   "combined"  src/api/generate-preview.js:1-508   (Replicate or OpenAI, *)
(*               attempt loop with optional vision validation)             *)
(*   "canonical" src/api/generate-preview.js:510-1161 (Replicate only)     *)
(*   "legacy"    src/unnamed/part_001                 (Replicate only)     *)
(*   "agnostic"  src/unnamed/part_000    (no quota, placeholder fallback)  *)
(* A handler is an async function: between two awaits it runs atomically   *)
(* on the single JavaScript thread, and at every await other requests may  *)
(* run.  One action of the model is one such atomic stretch.               *)
(***************************************************************************)
EXTENDS Integers, FiniteSets, Sequences, TLC

\* ---- bounds of the model ----
MaxRequests == 3     \* requests received in a run
MaxInFlight == 2     \* requests whose handlers are suspended at an await at once
NumSessions == 2

\* ---- program constants ----
MAX_GENERATIONS == 2
maxAttempts == 2

Sessions == 1..NumSessions
NoSession == 0
\* a handler invocation runs in a slot, which is free again once it has answered
Requests == 1..MaxInFlight

\* imageUrl values: 0 is undefined/null, k >= 1 is the content produced by
\* attempt k of the request, Placeholder is the SVG placeholder data URL.
Placeholder == -1
NoUsed == -1

VARIABLES
  cfg,              \* process environment and deployed handler
  generationCount,  \* the Map sessionId -> count (a partial function)
  req,              \* per slot: the request body and the handler's locals
  last,             \* the request answered by the latest step, if any: its locals and its response
  delivered,        \* per session: responses sent that carry a generated image
  arrived,          \* number of requests received so far
  CONSTRAINTS,      \* the brand policy read from the environment at load
  inputs,           \* the inputs handed to the notes helpers and the prompt builder
  tier,             \* the tier handed to the prompt builder
  result            \* what the helper or prompt builder under study returned

\* the state of the notes helpers and prompt builders
promptVars == <<CONSTRAINTS, inputs, tier, result>>

vars == <<cfg, generationCount, req, last, delivered, arrived, CONSTRAINTS, inputs, tier, result>>

\* ---- the quota map --------------------------------------------------------
\* generationCount.get(sessionId) || 0
QuotaGet(gc, sid) == IF sid \in DOMAIN gc THEN gc[sid] ELSE 0

\* a quota store that keeps one count for all sessions
QuotaSetShared(gc, sid, v) ==
  [x \in (DOMAIN gc) \cup {sid} \cup Sessions |-> v]

\* generationCount.set(sessionId, v)
QuotaSet(gc, sid, v) ==
  [x \in (DOMAIN gc) \cup {sid} |-> IF x = sid THEN v ELSE gc[x]]

\* an off-by-one quota comparison
QuotaExceededOffByOne(used) == used > MAX_GENERATIONS

\* used >= MAX_GENERATIONS
QuotaExceeded(used) == used >= MAX_GENERATIONS

\* ---- responses --------------------------------------------------------------
\* One record shape for every res.status(..).json(..); a field the handler
\* does not send is "absent" / NoUsed / 0 / FALSE.
Response(status, ok, error, used, imageUrl, demo, provider, note) ==
  [status |-> status, ok |-> ok, error |-> error, used |-> used,
   imageUrl |-> imageUrl, demo |-> demo, provider |-> provider, note |-> note]

NoResp == Response(0, "absent", "absent", NoUsed, 0, "absent", "absent", FALSE)

ErrorResp(status, ok, error, used) ==
  Response(status, ok, error, used, 0, "absent", "absent", FALSE)

\* res.status(200).end() for the CORS preflight
PreflightResp == Response(200, "absent", "absent", NoUsed, 0, "absent", "absent", FALSE)

\* res.status(200).json({ ok: true, engine, used: used + 1, imageUrl })
SuccessResp(used, imageUrl) ==
  Response(200, IF cfg.variant = "legacy" THEN "absent" ELSE "true", "absent",
           used + 1, imageUrl, "absent", "absent", FALSE)

\* a catch block that answers with an error instead of the placeholder
FallbackRespAsError == Response(500, "absent", "Provider failed", NoUsed, 0, "absent", "absent", FALSE)

\* part_000: the placeholder answer of the catch block
FallbackResp == Response(200, "absent", "absent", NoUsed, Placeholder, "true", "fallback", TRUE)

\* part_000: DEMO_MODE=true
DemoResp == Response(200, "absent", "absent", NoUsed, Placeholder, "true", "demo", FALSE)

\* part_000: a provider delivered
ProviderResp(imageUrl) ==
  Response(200, "absent", "absent", NoUsed, imageUrl, "false", cfg.engine, FALSE)

\* ---- requests -------------------------------------------------------------
\* The request bodies the model sends.  sess = NoSession is a missing or
\* empty sessionId; hasInputs is body.inputs being truthy; notesEmpty is
\* normalizeStr(inputs.notes) being "", which only validateWithVision
\* observes (src/api/generate-preview.js:384).
Bodies ==
  { [method |-> m, sess |-> NoSession, hasInputs |-> FALSE, notesEmpty |-> TRUE] :
      m \in {"OPTIONS", "GET"} }
  \cup
  { [method |-> "POST", sess |-> s, hasInputs |-> FALSE, notesEmpty |-> TRUE] :
      s \in Sessions }
  \cup
  { [method |-> "POST", sess |-> NoSession, hasInputs |-> TRUE, notesEmpty |-> TRUE] }
  \cup
  { [method |-> "POST", sess |-> s, hasInputs |-> TRUE, notesEmpty |-> n] :
      s \in Sessions, n \in BOOLEAN }

\* Bodies that differ only in the notes are one input to a deployment that
\* has VALIDATE_WITH_VISION off or has no validateWithVision, and bodies that differ only in inputs and
\* sessionId are one input to the provider-agnostic endpoint, which reads
\* neither.
BodiesFor(c) ==
  IF c.variant = "combined" /\ c.validate
    THEN Bodies
  ELSE IF c.variant = "agnostic"
    THEN { b \in Bodies : b.sess = NoSession /\ (b.method = "POST" => b.hasInputs) }
  ELSE { b \in Bodies : b.notesEmpty }

IdleReq ==
  [method |-> "POST", sess |-> NoSession, hasInputs |-> FALSE, notesEmpty |-> TRUE,
   pc |-> "idle", used |-> 0, attempt |-> 0, dataUrl |-> 0,
   \* bookkeeping of the model, not read by the handler:
   seen |-> 0,          \* the stored count of sess when the request arrived
   calls |-> 0,         \* backend generate calls made
   got |-> 0,           \* backend calls that returned content
   lastOut |-> "none",  \* how the latest backend call settled
   vcalls |-> 0,        \* verifier calls made
   verdict |-> "none",  \* the verdict on the current attempt
   rejected |-> 0]      \* verdicts that were not ok

\* the latest step answered no request
NoAnswer == [rec |-> IdleReq, resp |-> NoResp]

\* ---- configurations ----------------------------------------------------------
\* engine is PREVIEW_ENGINE (combined) or AI_PROVIDER (agnostic), lower-cased;
\* "other" stands for any string that is neither "openai" nor "replicate".
Configs ==
  { [variant |-> "combined", engine |-> "openai", openaiKey |-> k, replicateToken |-> TRUE,
     validate |-> v, demoMode |-> FALSE] : k \in BOOLEAN, v \in BOOLEAN }
  \cup
  { [variant |-> "combined", engine |-> e, openaiKey |-> TRUE, replicateToken |-> t,
     validate |-> v, demoMode |-> FALSE] :
      e \in {"replicate", "other"}, t \in BOOLEAN, v \in BOOLEAN }
  \cup
  { [variant |-> w, engine |-> "replicate", openaiKey |-> TRUE, replicateToken |-> t,
     validate |-> FALSE, demoMode |-> FALSE] :
      w \in {"canonical", "legacy"}, t \in BOOLEAN }
  \cup
  { [variant |-> "agnostic", engine |-> e, openaiKey |-> TRUE, replicateToken |-> t,
     validate |-> FALSE, demoMode |-> FALSE] :
      e \in {"openai", "replicate", "other"}, t \in BOOLEAN }
  \cup
  { [variant |-> "agnostic", engine |-> "replicate", openaiKey |-> TRUE, replicateToken |-> TRUE,
     validate |-> FALSE, demoMode |-> TRUE] }

\* MEANINGFULL_ALLOWED_BRANDS and MEANINGFULL_DISALLOWED_BRANDS unset,
\* MEANINGFULL_STRICT_BRAND_MODE unset (default "true")
DefaultConstraints ==
  [ALLOWED_BRANDS |-> {}, DISALLOWED_BRANDS |-> {}, STRICT_BRAND_MODE |-> TRUE]

NoInputs == [notes |-> "", recipient |-> ""]
NoResult == [fn |-> "none"]

\* The prompt is a pure function of the request and steers no step of a
\* handler: the session controller runs with the prompt state at rest.
Init ==
  /\ cfg \in Configs
  /\ generationCount = [s \in {} |-> 0]
  /\ req = [r \in Requests |-> IdleReq]
  /\ last = NoAnswer
  /\ delivered = [s \in Sessions |-> 0]
  /\ arrived = 0
  /\ CONSTRAINTS = DefaultConstraints
  /\ inputs = NoInputs
  /\ tier = "Curated"
  /\ result = NoResult

\* ---- steps shared by the handlers -------------------------------------------
\* return res.status(..).json(..): the handler ends
Finish(r, rec, response) ==
  /\ req' = [req EXCEPT ![r] = IdleReq]
  /\ last' = [rec |-> rec, resp |-> response]
  /\ delivered' = IF response.imageUrl >= 1 /\ rec.sess \in Sessions
                    THEN [delivered EXCEPT ![rec.sess] = @ + 1]
                    ELSE delivered
  /\ UNCHANGED promptVars

\* bookkeeping of the model: a run that keeps a tally of the backend calls
\* made for each session counts one more for sess
Tally(res, sess) ==
  IF res.fn = "backendCalls" /\ sess \in Sessions
    THEN [res EXCEPT !.n[sess] = @ + 1]
    ELSE res

\* the handler calls the image backend and suspends at the await
CallBackend(r, rec) ==
  /\ req' = [req EXCEPT ![r] = [rec EXCEPT !.pc = "gen", !.attempt = @ + 1,
                                           !.calls = @ + 1, !.verdict = "none"]]
  /\ last' = NoAnswer
  /\ result' = Tally(result, rec.sess)
  /\ UNCHANGED <<delivered, CONSTRAINTS, inputs, tier>>

\* generationCount.set(sessionId, used + 1); return res.status(200).json(..)
Succeed(r, rec, imageUrl) ==
  /\ generationCount' = QuotaSet(generationCount, rec.sess, rec.used + 1)
  /\ Finish(r, rec, SuccessResp(rec.used, imageUrl))

\* const imageUrl = Array.isArray(output) ? output[0] : output
\* out is "image" (a URL, or an array holding one) or "empty" ([] / undefined)
FirstOutput(out) == IF out = "image" THEN 1 ELSE 0

\* the awaited backend call of a request settles with outcome out
Settled(rec, out) ==
  [rec EXCEPT !.lastOut = out, !.got = IF out = "image" THEN @ + 1 ELSE @]

\* A request is received: the locals of the new handler invocation.
Received(b) ==
  [IdleReq EXCEPT !.method = b.method, !.sess = b.sess, !.hasInputs = b.hasInputs,
                  !.notesEmpty = b.notesEmpty,
                  !.seen = IF b.method = "POST" /\ b.hasInputs
                                  /\ b.sess \in DOMAIN generationCount
                             THEN generationCount[b.sess] ELSE 0]

IsNext(r) ==
  /\ arrived < MaxRequests
  /\ req[r].pc = "idle"
  /\ \A q \in Requests : q < r => req[q].pc # "idle"

\* if (req.method === "OPTIONS") ...; if (req.method !== "POST") ...
MethodGate(r, rec, error) ==
  IF rec.method = "OPTIONS" THEN Finish(r, rec, PreflightResp)
  ELSE Finish(r, rec, ErrorResp(405, "absent", error, NoUsed))

\* ---- combined handler (src/api/generate-preview.js:425-508) --------------
\* Engine selection (lines 449-451, 478-481): "openai" needs OPENAI_API_KEY,
\* every other value of PREVIEW_ENGINE is the replicate default and needs
\* REPLICATE_API_TOKEN.
\* an engine selection that never looks at the credentials
CredentialNotChecked(c) == TRUE

CredentialPresent(c) ==
  IF c.engine = "openai" THEN c.openaiKey ELSE c.replicateToken

MissingCredential(c) ==
  IF c.engine = "openai" THEN "Missing OPENAI_API_KEY in Vercel env vars"
  ELSE "Missing REPLICATE_API_TOKEN in Vercel env vars"

CombinedReceive(r, b) ==
  /\ cfg.variant = "combined"
  /\ IsNext(r)
  /\ arrived' = arrived + 1
  /\ UNCHANGED <<cfg, generationCount>>
  /\ LET rec == Received(b)
         used == QuotaGet(generationCount, b.sess)
         run == [rec EXCEPT !.used = used]
     IN IF rec.method # "POST" THEN MethodGate(r, rec, "Method not allowed")
        ELSE IF ~rec.hasInputs \/ rec.sess = NoSession
          THEN Finish(r, rec, ErrorResp(400, "absent", "Missing inputs or sessionId", NoUsed))
        ELSE IF QuotaExceeded(used)
          THEN Finish(r, run, ErrorResp(429, "absent", "Generation limit reached", used))
        ELSE IF ~CredentialPresent(cfg)
          THEN Finish(r, run, ErrorResp(500, "absent", MissingCredential(cfg), NoUsed))
        ELSE CallBackend(r, run)

\* a handler that catches the failure inside the loop and tries again
CombinedCrashRetrying(r, rec) ==
  IF rec.attempt < maxAttempts /\ rec.pc = "gen"
    THEN CallBackend(r, rec)
    ELSE Finish(r, rec, ErrorResp(500, "false", "Generation failed", NoUsed))

\* the catch block of the combined handler
CombinedCrash(r, rec) ==
  Finish(r, rec, ErrorResp(500, "false", "Generation failed", NoUsed))

\* a loop that hands out the first rejected image
AfterRejectionReturnFirst(attempt) == "return"

\* What the attempt loop does with a verdict that is not ok (lines 466-472):
\* "return" the attempt's image after the last attempt, else "retry".
AfterRejection(attempt) == IF attempt = maxAttempts THEN "return" ELSE "retry"

\* The awaited backend call of the combined handler settles.
\* openai: generateWithOpenAI resolves with a data URL, or throws (transport
\* error, or "OpenAI returned no image data"); replicate: replicate.run
\* resolves with its output or throws.
CombinedGenerateReturns(r, out) ==
  /\ cfg.variant = "combined"
  /\ req[r].pc = "gen"
  /\ UNCHANGED <<cfg, arrived>>
  /\ LET rec == Settled(req[r], out) IN
     IF cfg.engine = "openai"
       THEN IF out # "image"
              THEN CombinedCrash(r, rec) /\ UNCHANGED generationCount
            ELSE IF cfg.validate
              THEN \* await validateWithVision(..): the verifier is called
                   \* unless the notes are empty (line 384)
                   /\ req' = [req EXCEPT ![r] =
                        [rec EXCEPT !.pc = "verify", !.dataUrl = rec.attempt,
                                    !.vcalls = IF rec.notesEmpty THEN @ ELSE @ + 1]]
                   /\ last' = NoAnswer
                   /\ UNCHANGED <<delivered, generationCount, promptVars>>
            ELSE Succeed(r, [rec EXCEPT !.dataUrl = rec.attempt], rec.attempt)
       ELSE IF out = "throw"
              THEN CombinedCrash(r, rec) /\ UNCHANGED generationCount
              ELSE Succeed(r, rec, FirstOutput(out))

\* validateWithVision settles: v is "ok" (verdict.ok truthy), "reject"
\* (verdict.ok falsy, including the parse-error verdict) or "throw".
\* With empty notes it resolves { ok: true, reason: "no_notes" }.
CombinedVerdict(r, v) ==
  /\ cfg.variant = "combined"
  /\ req[r].pc = "verify"
  /\ req[r].notesEmpty => v = "ok"
  /\ UNCHANGED <<cfg, arrived>>
  /\ LET rec == [req[r] EXCEPT !.verdict = v,
                               !.rejected = IF v = "reject" THEN @ + 1 ELSE @] IN
     IF v = "throw" THEN CombinedCrash(r, rec) /\ UNCHANGED generationCount
     ELSE IF v = "ok" THEN Succeed(r, rec, rec.dataUrl)
     ELSE IF AfterRejection(rec.attempt) = "return" THEN Succeed(r, rec, rec.dataUrl)
     ELSE CallBackend(r, rec) /\ UNCHANGED generationCount

\* ---- canonical handler (src/api/generate-preview.js:1082-1160) -----------
CanonicalReceive(r, b) ==
  /\ cfg.variant = "canonical"
  /\ IsNext(r)
  /\ arrived' = arrived + 1
  /\ UNCHANGED <<cfg, generationCount>>
  /\ LET rec == Received(b)
         used == QuotaGet(generationCount, b.sess)
         run == [rec EXCEPT !.used = used]
     IN IF rec.method # "POST" THEN MethodGate(r, rec, "Method not allowed")
        ELSE IF ~cfg.replicateToken
          THEN Finish(r, rec, ErrorResp(500, "absent",
                                        "Missing REPLICATE_API_TOKEN in environment", NoUsed))
        ELSE IF ~rec.hasInputs \/ rec.sess = NoSession
          THEN Finish(r, rec, ErrorResp(400, "absent", "Missing inputs or sessionId", NoUsed))
        ELSE IF QuotaExceeded(used)
          THEN Finish(r, run, ErrorResp(429, "absent", "Generation limit reached", NoUsed))
        ELSE CallBackend(r, run)

\* lines 1128-1135: the image URL taken from the output, null when the
\* output is empty or of an unexpected shape
ExtractImageUrl(out) == IF out = "image" THEN 1 ELSE 0

\* replicate.run settles (lines 1111-1152)
CanonicalReplicateReturns(r, out) ==
  /\ cfg.variant = "canonical"
  /\ req[r].pc = "gen"
  /\ UNCHANGED <<cfg, arrived>>
  /\ LET rec == Settled(req[r], out) IN
     IF out = "throw"
       THEN /\ Finish(r, rec, ErrorResp(502, "absent", "Replicate request failed", NoUsed))
            /\ UNCHANGED generationCount
     ELSE IF ExtractImageUrl(out) = 0
       THEN /\ Finish(r, rec, ErrorResp(502, "absent", "No image returned from model", NoUsed))
            /\ UNCHANGED generationCount
     ELSE Succeed(r, rec, ExtractImageUrl(out))

\* ---- legacy handler (src/unnamed/part_001:180-313) -----------------------
LegacyReceive(r, b) ==
  /\ cfg.variant = "legacy"
  /\ IsNext(r)
  /\ arrived' = arrived + 1
  /\ UNCHANGED <<cfg, generationCount>>
  /\ LET rec == Received(b)
         used == QuotaGet(generationCount, b.sess)
         run == [rec EXCEPT !.used = used]
     IN IF rec.method # "POST" THEN MethodGate(r, rec, "Method not allowed")
        ELSE IF ~cfg.replicateToken
          THEN Finish(r, rec, ErrorResp(500, "absent",
                                        "Missing REPLICATE_API_TOKEN in Vercel env vars", NoUsed))
        ELSE IF ~rec.hasInputs \/ rec.sess = NoSession
          THEN Finish(r, rec, ErrorResp(400, "absent", "Missing inputs or sessionId", NoUsed))
        ELSE IF QuotaExceeded(used)
          THEN Finish(r, run, ErrorResp(429, "absent", "Generation limit reached", used))
        ELSE CallBackend(r, run)

\* replicate.run settles (lines 292-312)
LegacyReplicateReturns(r, out) ==
  /\ cfg.variant = "legacy"
  /\ req[r].pc = "gen"
  /\ UNCHANGED <<cfg, arrived>>
  /\ LET rec == Settled(req[r], out) IN
     IF out = "throw"
       THEN /\ Finish(r, rec, ErrorResp(500, "absent", "Generation failed", NoUsed))
            /\ UNCHANGED generationCount
       ELSE Succeed(r, rec, FirstOutput(out))

\* ---- provider-agnostic handler (src/unnamed/part_000:164-236) ------------
AgnosticReceive(r, b) ==
  /\ cfg.variant = "agnostic"
  /\ IsNext(r)
  /\ arrived' = arrived + 1
  /\ UNCHANGED <<cfg, generationCount>>
  /\ LET rec == [IdleReq EXCEPT !.method = b.method]   \* no sessionId is read
     IN IF rec.method # "POST" THEN MethodGate(r, rec, "Method not allowed. Use POST.")
        ELSE IF cfg.demoMode THEN Finish(r, rec, DemoResp)
        ELSE IF cfg.engine = "replicate"
          THEN IF ~cfg.replicateToken
                 THEN Finish(r, rec, FallbackResp)   \* generateWithReplicate throws at once
                 ELSE CallBackend(r, rec)
        ELSE IF cfg.engine = "openai" THEN CallBackend(r, rec)
        ELSE Finish(r, rec, FallbackResp)            \* Unknown AI_PROVIDER

\* the provider call settles: a URL, no URL, or an error
AgnosticProviderReturns(r, out) ==
  /\ cfg.variant = "agnostic"
  /\ req[r].pc = "gen"
  /\ UNCHANGED <<cfg, arrived, generationCount>>
  /\ LET rec == Settled(req[r], out) IN
     IF out = "image" THEN Finish(r, rec, ProviderResp(1))
     ELSE Finish(r, rec, FallbackResp)

BackendOutcomes == {"image", "empty", "throw"}
Verdicts == {"ok", "reject", "throw"}

Next ==
  \/ \E r \in Requests, b \in BodiesFor(cfg) : CombinedReceive(r, b)
  \/ \E r \in Requests, out \in BackendOutcomes : CombinedGenerateReturns(r, out)
  \/ \E r \in Requests, v \in Verdicts : CombinedVerdict(r, v)
  \/ \E r \in Requests, b \in BodiesFor(cfg) : CanonicalReceive(r, b)
  \/ \E r \in Requests, out \in BackendOutcomes : CanonicalReplicateReturns(r, out)
  \/ \E r \in Requests, b \in BodiesFor(cfg) : LegacyReceive(r, b)
  \/ \E r \in Requests, out \in BackendOutcomes : LegacyReplicateReturns(r, out)
  \/ \E r \in Requests, b \in BodiesFor(cfg) : AgnosticReceive(r, b)
  \/ \E r \in Requests, out \in BackendOutcomes : AgnosticProviderReturns(r, out)

Spec == Init /\ [][Next]_vars

TypeOK ==
  /\ cfg \in Configs
  /\ arrived \in 0..MaxRequests
  /\ DOMAIN generationCount \subseteq Sessions
  /\ \A s \in DOMAIN generationCount : generationCount[s] \in 1..MaxRequests

\* ---- vocabulary of the properties ------------------------------------------
QuotaVariant == cfg.variant \in {"combined", "canonical", "legacy"}

InFlight(r) == req[r].pc \in {"gen", "verify"}

Answered == last.resp.status # 0

\* the answered request carried inputs and a sessionId over POST
WellFormed(rec) == rec.method = "POST" /\ rec.hasInputs /\ rec.sess \in Sessions

\* a request is answered in this step
Answers == last'.resp.status # 0

BackendFailed(rec) == rec.lastOut \in {"throw", "empty"}

C2_CountEqualsDelivered ==
  cfg.variant = "canonical" =>
    \A s \in Sessions : QuotaGet(generationCount, s) = delivered[s]

\* ---- C3 --------------------------------------------------------------------
\* C3: no session is ever served more than MAX_GENERATIONS generated images,
\* whatever the interleaving of its requests.
C3_AtMostMaxServed ==
  \A s \in Sessions : delivered[s] <= MAX_GENERATIONS

\* ---- C4 --------------------------------------------------------------------
\* C4: a request that is answered without a generated image leaves the
\* stored count of every session as it was before the answer.
C4_NoImageNoCount ==
  [][ (Answers /\ last'.resp.imageUrl < 1) => generationCount' = generationCount ]_vars

\* ---- C5 --------------------------------------------------------------------
\* C5: a request whose every backend attempt failed (error, or no content)
\* is answered with the flagged placeholder: placeholder content, the
\* fallback flag and a reason; never with an answer that carries no content.
C5_FallbackOnBackendFailure ==
  (Answered /\ last.rec.calls >= 1 /\ last.rec.got = 0)
    => /\ last.resp.imageUrl = Placeholder
       /\ last.resp.demo = "true"
       /\ last.resp.note

C7_LastAttemptReturned ==
  (Answered /\ cfg.variant = "combined" /\ cfg.engine = "openai" /\ cfg.validate) =>
    /\ last.rec.verdict = "reject"
         => /\ last.rec.attempt = maxAttempts
            /\ last.rec.rejected = maxAttempts
            /\ last.resp.status = 200
            /\ last.resp.imageUrl = maxAttempts
    /\ last.resp.imageUrl >= 1
         => /\ last.resp.imageUrl = last.rec.attempt
            /\ last.rec.verdict \in {"ok", "reject"}
            /\ last.rec.verdict = "ok" => last.rec.rejected = last.rec.attempt - 1

C7_Witness ==
  /\ Answered /\ cfg.validate
  /\ last.rec.rejected = maxAttempts
  /\ last.resp.status = 200
  /\ last.resp.imageUrl = maxAttempts

\* ---- C8 --------------------------------------------------------------------
\* what an answer tells the caller besides the image and the usage count
Annotation(response) == [response EXCEPT !.used = NoUsed, !.imageUrl = 0]

\* C8: an answer that carries the image of a last attempt the verifier
\* rejected is annotated: it differs from the answer given for a verified
\* image in more than the image and the usage count.
C8_UnverifiedAnnotated ==
  (Answered /\ last.rec.verdict = "reject" /\ last.resp.imageUrl >= 1)
    => Annotation(last.resp) # Annotation(SuccessResp(0, 1))

\* ---- C9 --------------------------------------------------------------------
\* the credential of the backend that the engine selection picks is missing
SelectedCredentialMissing ==
  \/ cfg.engine = "openai" /\ ~cfg.openaiKey
  \/ cfg.engine # "openai" /\ ~cfg.replicateToken

\* the configured backend identifier names no backend
UnknownBackend == cfg.engine = "other"

ConfigError(response) ==
  /\ response.status = 500
  /\ response.error \in {"Missing OPENAI_API_KEY in Vercel env vars",
                         "Missing REPLICATE_API_TOKEN in Vercel env vars",
                         "Missing REPLICATE_API_TOKEN in environment"}

\* the answered request got as far as the choice of the backend
ReachedBackendChoice(rec) ==
  /\ rec.method = "POST"
  /\ cfg.variant = "combined" => (WellFormed(rec) /\ rec.seen < MAX_GENERATIONS)

Count(gc, s) == IF s \in DOMAIN gc THEN gc[s] ELSE 0

\* C10: a step of a request of session A changes the stored count of no
\* other session, the new count of A is the count this request read for A
\* plus one, and what the request is told (429 or not, the used value) is
\* decided by the stored count of A alone, whatever requests of other
\* sessions are in flight or were served.
C10_SessionsIndependent ==
  [][ /\ \A s \in Sessions :
           Count(generationCount', s) # Count(generationCount, s)
             => \E r \in Requests :
                  /\ InFlight(r) /\ req'[r].pc = "idle"
                  /\ req[r].sess = s
                  /\ Count(generationCount', s) = req[r].used + 1
                  /\ last'.resp.used = req[r].used + 1
      /\ \A r \in Requests :
           (InFlight(r) /\ QuotaVariant)' =>
              req'[r].used = req'[r].seen
      /\ (Answers /\ QuotaVariant /\ WellFormed(last'.rec)
            /\ ~(cfg.variant \in {"canonical", "legacy"} /\ ~cfg.replicateToken))
           => (last'.resp.status = 429 <=> last'.rec.seen >= MAX_GENERATIONS)
    ]_vars

C10_Witness ==
  /\ Answered /\ last.rec.sess = 1 /\ last.resp.imageUrl >= 1
  /\ Count(generationCount, 1) = 1 /\ Count(generationCount, 2) = 0
  /\ \E r \in Requests : InFlight(r) /\ req[r].sess = 2

\* ---- C11 -------------------------------------------------------------------
\* C11: in the combined and the canonical handler the stored count of a
\* session changes only in the step that sends the success answer of a
\* request of that session, when every backend and verifier call of the
\* request has settled and the answer carries a generated image; a request
\* that is answered with an error leaves every count as it was.
C11_IncrementOnlyWithContent ==
  [][ cfg.variant \in {"combined", "canonical"} =>
        /\ \A s \in Sessions :
             Count(generationCount', s) # Count(generationCount, s)
               => /\ Answers
                  /\ last'.rec.sess = s
                  /\ last'.resp.status = 200
                  /\ last'.resp.imageUrl >= 1
                  /\ last'.rec.got >= 1
                  /\ last'.rec.lastOut = "image"
        /\ (Answers /\ last'.resp.status >= 400)
             => generationCount' = generationCount
    ]_vars

\* ---- C12 -------------------------------------------------------------------
\* C12: in the combined handler the protocol does not depend on the selected
\* backend.  Whichever engine is configured, with verification switched on
\* every image a request with notes obtained was put to the verifier, with
\* verification off none was, a request whose last backend call returned no
\* content is answered with an error, and a rejected image is answered only
\* as that of attempt K.
C12_SameProtocolWhicheverBackend ==
  (Answered /\ cfg.variant = "combined" /\ last.rec.calls >= 1) =>
    /\ (cfg.validate /\ ~last.rec.notesEmpty) => last.rec.vcalls = last.rec.got
    /\ ~cfg.validate => last.rec.vcalls = 0
    /\ last.rec.lastOut \in {"empty", "throw"} => last.resp.status = 500
    /\ last.rec.attempt \in 1..maxAttempts
    /\ last.rec.verdict = "reject" => last.rec.attempt = maxAttempts

\* =============================================================================
\* The notes helpers and the prompt builders.  They are pure functions of the
\* request text; each is studied under a specification of its own whose
\* initial states draw the text from a bounded set and whose action applies
\* the function.  Texts are strings, read character by character.
\* =============================================================================

\* ---- bounds of the texts ----
MaxColorWords == 3   \* words in a notes text handed to extractColorsFree
MaxNumber == 105     \* the largest number written in a notes text handed to extractAge
MaxBrandWords == 2   \* words in a notes text handed to detectBrands
MaxPhrases == 2      \* phrases in a notes text handed to the canonical prompt builder

handlerVars == <<cfg, generationCount, req, last, delivered, arrived>>

\* no request is being handled while a helper is studied
HandlersAtRest(variant) ==
  /\ cfg = [variant |-> variant, engine |-> "replicate", openaiKey |-> TRUE,
            replicateToken |-> TRUE, validate |-> FALSE, demoMode |-> FALSE]
  /\ generationCount = [s \in {} |-> 0]
  /\ req = [r \in Requests |-> IdleReq]
  /\ last = NoAnswer
  /\ delivered = [s \in Sessions |-> 0]
  /\ arrived = 0

\* ---- JavaScript strings and regular expressions ---------------------------
LowerLetters == "abcdefghijklmnopqrstuvwxyz"
UpperLetters == "ABCDEFGHIJKLMNOPQRSTUVWXYZ"
DigitChars == "0123456789"

\* s[i - 1] with i counted from 1; "" outside the string
charAt(s, i) == IF i \in 1..Len(s) THEN SubSeq(s, i, i) ELSE ""

\* the position of character c in alphabet, 0 when it is not in it
IndexIn(alphabet, c) ==
  IF \E i \in 1..Len(alphabet) : SubSeq(alphabet, i, i) = c
    THEN CHOOSE i \in 1..Len(alphabet) : SubSeq(alphabet, i, i) = c
    ELSE 0

\* the characters of an alphabet
CharsOf(alphabet) == { SubSeq(alphabet, i, i) : i \in 1..Len(alphabet) }

LowerSet == CharsOf(LowerLetters)
UpperSet == CharsOf(UpperLetters)
DigitSet == CharsOf(DigitChars)

RECURSIVE Concat(_)
\* the strings of a list, one after the other
Concat(parts) ==
  IF parts = <<>> THEN ""
  ELSE IF Len(parts) = 1 THEN parts[1]
  ELSE LET mid == Len(parts) \div 2
       IN Concat(SubSeq(parts, 1, mid)) \o Concat(SubSeq(parts, mid + 1, Len(parts)))

\* String.prototype.toLowerCase
toLowerCase(s) ==
  Concat([i \in 1..Len(s) |->
            LET c == SubSeq(s, i, i)
            IN IF c \in UpperSet
                 THEN SubSeq(LowerLetters, IndexIn(UpperLetters, c), IndexIn(UpperLetters, c))
                 ELSE c])

\* the class \d
IsDigit(c) == c \in DigitSet

\* the class \w
IsWordChar(c) == c \in LowerSet \/ c \in UpperSet \/ c \in DigitSet \/ c = "_"

\* the class \s, for the white space the texts hold
IsSpace(c) == c = " " \/ c = "\n" \/ c = "\t"

\* w occurs in s at position i
startsWith(s, w, i) ==
  i >= 1 /\ i + Len(w) - 1 <= Len(s) /\ SubSeq(s, i, i + Len(w) - 1) = w

\* String.prototype.includes
includes(s, w) == \E i \in 1..(Len(s) + 1) : startsWith(s, w, i)

\* the assertion \b in front of position i
WordBoundary(s, i) == IsWordChar(charAt(s, i - 1)) # IsWordChar(charAt(s, i))

\* w matched as \bw\b at position i
WordAt(s, w, i) ==
  startsWith(s, w, i) /\ WordBoundary(s, i) /\ WordBoundary(s, i + Len(w))

\* new RegExp(`\\b${w}\\b`, "i").test(s), for s in lower case
TestWord(s, w) == \E i \in 1..Len(s) : WordAt(s, w, i)

RECURSIVE Dedupe(_)
\* Array.from(new Set(seq)): the first occurrence of every element, in order
Dedupe(seq) ==
  IF seq = <<>> THEN <<>>
  ELSE LET front == Dedupe(SubSeq(seq, 1, Len(seq) - 1))
           x == seq[Len(seq)]
       IN IF \E i \in DOMAIN front : front[i] = x THEN front ELSE Append(front, x)

Range(seq) == { seq[i] : i \in DOMAIN seq }

\* Array.prototype.join
join(seq, sep) ==
  IF seq = <<>> THEN ""
  ELSE Concat([i \in 1..(2 * Len(seq) - 1) |->
                 IF i % 2 = 1 THEN seq[(i + 1) \div 2] ELSE sep])

\* the texts of one to n of the given words, single spaces between them
Texts(words, n) ==
  { join(ws, " ") : ws \in UNION { [1..k -> words] : k \in 1..n } }

\* ---- extractColorsFree (src/api/generate-preview.js:32-48) ----------------
COLOR_WORDS ==
  << "black", "white", "gray", "grey", "silver", "gold",
     "red", "blue", "navy", "pink", "purple", "violet", "lavender",
     "green", "emerald", "sage", "teal",
     "yellow", "orange",
     "brown", "beige", "cream",
     "pastel", "neon" >>

extractColorsFree(notes) ==
  LET n == toLowerCase(notes)
      found == SelectSeq(COLOR_WORDS, LAMBDA c : TestWord(n, c))
  IN Dedupe(found)

\* the words the colour texts are made of
ColorNoteWords == {"navy", "blue", "and", "Gold,", "greenish"}

ColorsInit ==
  /\ HandlersAtRest("combined")
  /\ CONSTRAINTS = DefaultConstraints
  /\ inputs \in { [notes |-> t, recipient |-> ""] : t \in Texts(ColorNoteWords, MaxColorWords) }
  /\ tier = "Starter"
  /\ result = NoResult

\* const colors = extractColorsFree(raw)
ExtractColorsFree ==
  /\ result = NoResult
  /\ result' = [fn |-> "extractColorsFree", value |-> extractColorsFree(inputs.notes)]
  /\ UNCHANGED <<handlerVars, CONSTRAINTS, inputs, tier>>

ColorsNext == ExtractColorsFree

ColorsSpec == ColorsInit /\ [][ColorsNext]_vars

\* ---- C15 -------------------------------------------------------------------
\* the first position at which palette word c stands as a whole word in n
FirstAppearance(n, c) ==
  CHOOSE i \in 1..Len(n) : WordAt(n, c, i) /\ \A j \in 1..(i - 1) : ~WordAt(n, c, j)

\* C15: the colors extracted from a notes text are exactly the palette words
\* that stand in the text as whole words, each once, in the order in which
\* they first appear in the text.
C15_ColorsInOrderOfAppearance ==
  result.fn = "extractColorsFree" =>
    LET n == toLowerCase(inputs.notes)
        colors == result.value
    IN /\ Range(colors) = { c \in Range(COLOR_WORDS) : TestWord(n, c) }
       /\ \A i, j \in DOMAIN colors :
            i < j => /\ colors[i] # colors[j]
                     /\ FirstAppearance(n, colors[i]) < FirstAppearance(n, colors[j])

\* ---- extractAge (src/api/generate-preview.js:25-30, part_001:31-36) --------
null == -1

RECURSIVE SkipSpaces(_, _)
\* where \s* ends when it starts at position i
SkipSpaces(s, i) == IF IsSpace(charAt(s, i)) THEN SkipSpaces(s, i + 1) ELSE i

\* years?\s*old at position i
YearsOldAt(s, i) ==
  /\ startsWith(s, "year", i)
  /\ LET k == IF charAt(s, i + 4) = "s" THEN i + 5 ELSE i + 4
     IN startsWith(s, "old", SkipSpaces(s, k))

\* (?:yo|y\/o|years?\s*old) at position i
AgeMarkerAt(s, i) ==
  startsWith(s, "yo", i) \/ startsWith(s, "y/o", i) \/ YearsOldAt(s, i)

\* (\d{1,2})\s*(?:...) matched at position i with d digits captured
AgeMatchAt(s, i, d) ==
  /\ \A k \in i..(i + d - 1) : IsDigit(charAt(s, k))
  /\ AgeMarkerAt(s, SkipSpaces(s, i + d))

RECURSIVE Number(_)
\* Number(m[1]) of a string of digits
Number(digits) ==
  IF digits = "" THEN 0
  ELSE 10 * Number(SubSeq(digits, 1, Len(digits) - 1))
         + (IndexIn(DigitChars, SubSeq(digits, Len(digits), Len(digits))) - 1)

\* String(notes).match(..): the leftmost match, two digits before one; the
\* flag i makes the match that of the text in lower case
extractAge(notes) ==
  LET s == toLowerCase(notes)
      starts == { i \in 1..Len(s) : AgeMatchAt(s, i, 2) \/ AgeMatchAt(s, i, 1) }
  IN IF starts = {} THEN null
     ELSE LET i == CHOOSE x \in starts : \A y \in starts : x <= y
              d == IF AgeMatchAt(s, i, 2) THEN 2 ELSE 1
          IN Number(SubSeq(s, i, i + d - 1))

\* ---- buildNotesRules (src/api/generate-preview.js:50-124) -----------------
\* a band that takes the teens from 12 on
AgeRuleTeenFromTwelve(age) ==
  IF age <= 3 THEN "infant/toddler-appropriate items only; baby-safe, soft, gentle, non-choking-size items"
  ELSE IF age <= 11 THEN "kid-appropriate items only; playful, fun, absolutely no adult themes"
  ELSE IF age <= 17 THEN "teen-appropriate items; trendy, cool, still safe and age-appropriate"
  ELSE "adult-appropriate items"

\* lines 59-62: the rule pushed for an extracted age
AgeRule(age) ==
  IF age <= 3 THEN "infant/toddler-appropriate items only; baby-safe, soft, gentle, non-choking-size items"
  ELSE IF age <= 12 THEN "kid-appropriate items only; playful, fun, absolutely no adult themes"
  ELSE IF age <= 17 THEN "teen-appropriate items; trendy, cool, still safe and age-appropriate"
  ELSE "adult-appropriate items"

\* lines 65-81: { key, rule } of the exclusions read from the notes
noPhrases ==
  << [key |-> "alcohol", rule |-> "no alcohol"],
     [key |-> "chocolate", rule |-> "no chocolate items"],
     [key |-> "nuts", rule |-> "avoid nuts"],
     [key |-> "perfume", rule |-> "avoid perfume/fragrance items"],
     [key |-> "fragrance", rule |-> "avoid perfume/fragrance items"] >>

\* lines 83-96: { keys, rule } of the interests, the first hit wins
interests ==
  << [keys |-> {"sports", "soccer", "basketball", "hockey"},
      rule |-> "include subtle sports-themed gift items appropriate to the recipient"],
     [keys |-> {"music", "guitar", "piano", "concert", "vinyl"},
      rule |-> "include subtle music-themed gift items appropriate to the recipient"],
     [keys |-> {"gaming", "video game", "playstation", "xbox", "nintendo"},
      rule |-> "include subtle gaming-themed gift items appropriate to the recipient"],
     [keys |-> {"skincare", "self care", "spa"},
      rule |-> "include subtle skincare/self-care themed items appropriate to the recipient"],
     [keys |-> {"coffee", "espresso", "tea"},
      rule |-> "include subtle coffee/tea themed gift items appropriate to the recipient"],
     [keys |-> {"books", "reading", "novel"},
      rule |-> "include subtle book/reading themed gift items appropriate to the recipient"] >>

\* (the rule texts are those of the source, its long dashes written "-")
horrorKeywords ==
  {"horror", "horror movie", "slasher", "gothic", "creepy", "haunted",
   "classic horror", "classic horror movie"}

buildNotesRules(notes) ==
  LET raw == notes
      n == toLowerCase(raw)
      age == extractAge(raw)
      ageHard == IF age # null THEN <<AgeRule(age)>> ELSE <<>>
      hit(p) == \/ includes(n, "no " \o p.key)
                \/ includes(n, "don't include " \o p.key)
                \/ includes(n, "dont include " \o p.key)
                \/ includes(n, "avoid " \o p.key)
      hits == SelectSeq(noPhrases, hit)
      noAvoid == [i \in 1..Len(hits) |-> hits[i].rule]
      interested == SelectSeq(interests, LAMBDA it : \E k \in it.keys : includes(n, k))
      interestHard == IF interested = <<>> THEN <<>> ELSE <<interested[1].rule>>
      colors == extractColorsFree(raw)
      colorHard ==
        IF colors # <<>>
          THEN << "color theme must visibly include these colors: " \o join(colors, ", "),
                  "apply the color theme to the gift boxes and accent elements (ribbons, tissue paper, small decor)",
                  "keep the overall look premium and cohesive (do not look childish unless age indicates a child)" >>
          ELSE <<>>
      horrorMode == (\E k \in horrorKeywords : includes(n, k)) \/ includes(n, "horror")
      horrorHard ==
        IF horrorMode
          THEN << "classic horror movie aesthetic: moody cinematic lighting, retro film-grain feel, foggy ambience",
                  "include ONE or TWO original, unbranded horror-style character elements as subtle decor - NOT recognizable IP" >>
          ELSE <<>>
      horrorAvoid ==
        IF horrorMode
          THEN << "no recognizable copyrighted characters",
                  "no brand names or franchise logos",
                  "no gore or graphic violence" >>
          ELSE <<>>
      hard == ageHard \o interestHard \o colorHard \o horrorHard
      surprise ==
        IF (includes(n, "surprise me") \/ includes(n, "surprise")) /\ hard = <<>> /\ age = null
          THEN << "choose a balanced, universally appealing mix of items appropriate for the occasion and recipient" >>
          ELSE <<>>
  IN [fn |-> "buildNotesRules", hard |-> hard \o surprise, avoid |-> noAvoid \o horrorAvoid,
      age |-> age, raw |-> raw, colors |-> colors, horrorMode |-> horrorMode]

\* The age texts: a number, written out, then what follows it.
AgeNoteHeads == {"", "she is ", "bring "}
AgeNoteTails == {" yo", "yo", " years old", " year old", " y/o", " yoga mats", " candles", " years"}

AgeNotes ==
  { h \o ToString(k) \o t : h \in AgeNoteHeads, k \in 0..MaxNumber, t \in AgeNoteTails }

AgeInit ==
  /\ HandlersAtRest("combined")
  /\ CONSTRAINTS = DefaultConstraints
  /\ inputs \in { [notes |-> t, recipient |-> ""] : t \in AgeNotes }
  /\ tier = "Starter"
  /\ result = NoResult

\* const notesRules = buildNotesRules(inputs.notes || "")
BuildNotesRules ==
  /\ result = NoResult
  /\ result' = buildNotesRules(inputs.notes)
  /\ UNCHANGED <<handlerVars, CONSTRAINTS, inputs, tier>>

AgeNext == BuildNotesRules

AgeSpec == AgeInit /\ [][AgeNext]_vars

\* ---- C16 -------------------------------------------------------------------
\* the four rules an age can add
AgeRules == { AgeRule(a) : a \in {0, 10, 15, 30} }

\* the age rules among the hard rules of a result
AgeRulesIn(hard) == { h \in Range(hard) : h \in AgeRules }

\* a marker phrase stands at position i as a marker: the phrase is followed
\* by the end of a word
MarkerPhraseAt(s, i) ==
  \E m \in {"yo", "y/o", "years old", "year old"} :
    startsWith(s, m, i) /\ WordBoundary(s, i + Len(m))

\* the text holds a number with a marker phrase next to it
NumberNextToMarker(s) ==
  \E i \in 1..Len(s) :
    /\ IsDigit(charAt(s, i))
    /\ MarkerPhraseAt(s, SkipSpaces(s, i + 1))

\* C16: from a notes text in which no number stands next to an age-marker
\* phrase no age is extracted and no age rule is added; a number followed by
\* an ordinary word is never taken for an age.
C16_NoAgeWithoutMarker ==
  (result.fn = "buildNotesRules" /\ ~NumberNextToMarker(toLowerCase(inputs.notes)))
    => result.age = null /\ AgeRulesIn(result.hard) = {}

\* ---- C17 -------------------------------------------------------------------
\* the ages that get the rule r
AgesOfRule(r) == { b \in 0..99 : AgeRule(b) = r }

\* the band of age a as claimed: up to 6, 7-10, 11-14, 15-18, above 18
ClaimedBand(a) ==
  IF a <= 6 THEN 1..6
  ELSE IF a <= 10 THEN 7..10
  ELSE IF a <= 14 THEN 11..14
  ELSE IF a <= 18 THEN 15..18
  ELSE 19..99

trim(s) ==
  LET inked == { i \in 1..Len(s) : ~IsSpace(SubSeq(s, i, i)) }
  IN IF inked = {} THEN ""
     ELSE SubSeq(s, CHOOSE i \in inked : \A j \in inked : i <= j,
                    CHOOSE i \in inked : \A j \in inked : i >= j)

\* .replace(/\s+/g, " "): the first character of a white-space run becomes
\* the space, the others go
collapseSpaces(s) ==
  Concat([i \in 1..Len(s) |->
            IF IsSpace(SubSeq(s, i, i))
              THEN (IF IsSpace(charAt(s, i - 1)) THEN "" ELSE " ")
              ELSE SubSeq(s, i, i)])

normalizeStr(s) == collapseSpaces(trim(s))

toLower(s) == toLowerCase(normalizeStr(s))

\* ---- detectBrands (src/api/generate-preview.js:718-755) -------------------
BRANDS ==
  << "nike", "adidas", "puma", "new balance", "reebok", "rolex", "omega",
     "cartier", "seiko", "apple", "sony", "bose", "lululemon", "chanel",
     "dior", "gucci", "prada", "ysl", "hermes" >>

\* a classification that forgets the deny list
detectBrandsWithoutDenyList(notesText) ==
  LET requested == Dedupe(SelectSeq(BRANDS, LAMBDA b : includes(notesText, b)))
      allowed == CONSTRAINTS.ALLOWED_BRANDS
      blocked == SelectSeq(requested, LAMBDA b : allowed # {} /\ b \notin allowed)
      permitted == SelectSeq(requested, LAMBDA b : b \notin Range(blocked))
  IN [requested |-> requested, permitted |-> permitted, blocked |-> blocked]

detectBrands(notesText) ==
  LET requested == Dedupe(SelectSeq(BRANDS, LAMBDA b : includes(notesText, b)))
      disallowed == CONSTRAINTS.DISALLOWED_BRANDS
      allowed == CONSTRAINTS.ALLOWED_BRANDS
      blocked == SelectSeq(requested,
                   LAMBDA b : b \in disallowed \/ (allowed # {} /\ b \notin allowed))
      permitted == SelectSeq(requested, LAMBDA b : b \notin Range(blocked))
  IN [requested |-> requested, permitted |-> permitted, blocked |-> blocked]

\* the brand policies the environment can set, over three brands
BrandPolicies ==
  { [ALLOWED_BRANDS |-> a, DISALLOWED_BRANDS |-> d, STRICT_BRAND_MODE |-> m] :
      a \in SUBSET {"nike", "gucci"}, d \in SUBSET {"gucci", "rolex"}, m \in BOOLEAN }

BrandNoteWords == {"nike", "Gucci", "rolex", "pineapple", "hat"}

BrandInit ==
  /\ HandlersAtRest("canonical")
  /\ CONSTRAINTS \in BrandPolicies
  /\ inputs \in { [notes |-> t, recipient |-> ""] : t \in Texts(BrandNoteWords, MaxBrandWords) }
  /\ tier = "Curated"
  /\ result = NoResult

\* const brandScan = detectBrands(notesText), notesText = toLower(inputs.notes || "")
DetectBrands ==
  /\ result = NoResult
  /\ result' = [fn |-> "detectBrands", brandScan |-> detectBrands(toLower(inputs.notes))]
  /\ UNCHANGED <<handlerVars, CONSTRAINTS, inputs, tier>>

BrandNext == DetectBrands

BrandSpec == BrandInit /\ [][BrandNext]_vars

\* ---- C18 -------------------------------------------------------------------
\* permitted and blocked share no brand and together are the requested brands
PartitionsRequested(scan) ==
  /\ Range(scan.permitted) \cap Range(scan.blocked) = {}
  /\ Range(scan.permitted) \cup Range(scan.blocked) = Range(scan.requested)

\* C18 as claimed: a brand found in the notes is permitted exactly when
\* strict mode is off, or strict mode is on and the brand is in the allow
\* list and not in the deny list; otherwise it is blocked; permitted and
\* blocked are disjoint and together equal the requested set.
C18_PermittedByStrictMode ==
  result.fn = "detectBrands" =>
    /\ PartitionsRequested(result.brandScan)
    /\ \A b \in Range(result.brandScan.requested) :
         b \in Range(result.brandScan.permitted)
           <=> \/ ~CONSTRAINTS.STRICT_BRAND_MODE
               \/ /\ b \in CONSTRAINTS.ALLOWED_BRANDS
                  /\ b \notin CONSTRAINTS.DISALLOWED_BRANDS

\* C18 as amended: a brand found in the notes is blocked exactly when it is
\* in the deny list, or the allow list is not empty and the brand is not in
\* it; otherwise it is permitted; strict mode plays no part in the
\* classification; permitted and blocked are disjoint and together equal the
\* requested set, the brands of the vocabulary the text contains.
C18_BlockedByLists ==
  result.fn = "detectBrands" =>
    /\ PartitionsRequested(result.brandScan)
    /\ Range(result.brandScan.requested)
         = { b \in Range(BRANDS) : includes(toLowerCase(inputs.notes), b) }
    /\ \A b \in Range(result.brandScan.requested) :
         b \in Range(result.brandScan.blocked)
           <=> \/ b \in CONSTRAINTS.DISALLOWED_BRANDS
               \/ (CONSTRAINTS.ALLOWED_BRANDS # {} /\ b \notin CONSTRAINTS.ALLOWED_BRANDS)

C18_Witness ==
  /\ result.fn = "detectBrands"
  /\ ~CONSTRAINTS.STRICT_BRAND_MODE
  /\ CONSTRAINTS.ALLOWED_BRANDS = {}
  /\ "gucci" \in CONSTRAINTS.DISALLOWED_BRANDS
  /\ result.brandScan.blocked = <<"gucci">>
  /\ result.brandScan.permitted = <<"nike">>

\* ---- extractCanonicalTags (src/api/generate-preview.js:783-881) -----------
\* the tables, in the order of their keys
CANONICAL_INCLUDE ==
  << [key |-> "watch", synonyms |-> {"watch", "timepiece", "analog watch"}],
     [key |-> "wallet", synonyms |-> {"wallet", "card holder", "cardholder"}],
     [key |-> "jewelry", synonyms |-> {"jewelry", "necklace", "bracelet", "ring", "earrings"}],
     [key |-> "sneakers", synonyms |-> {"sneakers", "sneaker", "shoes", "shoe", "trainers"}],
     [key |-> "hoodie", synonyms |-> {"hoodie", "sweatshirt"}],
     [key |-> "sweater", synonyms |-> {"sweater", "knit"}],
     [key |-> "jacket", synonyms |-> {"jacket", "coat", "outerwear"}],
     [key |-> "hat", synonyms |-> {"hat", "cap", "beanie"}],
     [key |-> "headphones", synonyms |-> {"headphones", "earbuds", "earphones", "airpods"}],
     [key |-> "speaker", synonyms |-> {"speaker", "bluetooth speaker"}],
     [key |-> "bag", synonyms |-> {"bag", "handbag", "tote", "backpack"}],
     [key |-> "sunglasses", synonyms |-> {"sunglasses", "shades"}],
     [key |-> "belt", synonyms |-> {"belt"}],
     [key |-> "scarf", synonyms |-> {"scarf"}],
     [key |-> "book", synonyms |-> {"book", "novel"}],
     [key |-> "journal", synonyms |-> {"journal", "notebook"}],
     [key |-> "mug", synonyms |-> {"mug", "cup"}],
     [key |-> "bottle", synonyms |-> {"water bottle", "tumbler"}],
     [key |-> "decor", synonyms |-> {"decor", "sculpture", "ceramic object", "vase", "tray", "bowl"}],
     [key |-> "tech_accessory", synonyms |-> {"charger", "charging dock", "phone accessory"}],
     [key |-> "fitness", synonyms |-> {"gym", "workout", "fitness", "yoga"}],
     [key |-> "travel", synonyms |-> {"travel", "luggage tag", "passport cover"}] >>

CANONICAL_AVOID ==
  << [key |-> "candles", synonyms |-> {"candle", "candles", "tealight", "tealights", "votive", "wax"}],
     [key |-> "skincare", synonyms |-> {"skincare", "serum", "lotion", "face mask", "sheet mask",
                                        "moisturizer", "hand cream", "cream"}],
     [key |-> "fragrance", synonyms |-> {"fragrance", "perfume", "cologne"}],
     [key |-> "socks", synonyms |-> {"socks"}],
     [key |-> "hats", synonyms |-> {"hat", "cap", "beanie"}],
     [key |-> "plush", synonyms |-> {"plush", "stuffed", "stuffed animal"}],
     [key |-> "pillow", synonyms |-> {"pillow", "cushion"}],
     [key |-> "blanket", synonyms |-> {"blanket", "throw"}],
     [key |-> "soap", synonyms |-> {"soap", "body wash"}],
     [key |-> "bath", synonyms |-> {"bath bomb", "bath bombs", "loofah"}],
     [key |-> "alcohol", synonyms |-> {"alcohol", "wine", "beer", "spirits"}],
     [key |-> "food", synonyms |-> {"food", "snack", "snacks", "candy", "chocolate"}],
     [key |-> "paper", synonyms |-> {"card", "greeting card", "poster", "print", "prints",
                                     "sticker", "stickers"}],
     [key |-> "clutter", synonyms |-> {"cheap", "plastic", "novelty", "gag gift"}] >>

\* The trigger of a pattern: alternatives, each a list of words, the first
\* one after \b, every one followed by \s+.
exclusionPatterns ==
  << { <<"no">> },
     { <<"don't", "include">>, <<"dont", "include">> },
     { <<"exclude">> },
     { <<"without">> } >>

inclusionPatterns ==
  << { <<"must", "include">> },
     { <<"include">> },
     { <<"add">> },
     { <<"focus", "on">> },
     { <<"want">> },
     { <<"looking", "for">> } >>

\* the captured classes: [a-z\s-] of the exclusions, [^.\n] of the inclusions
InClass(class, c) ==
  IF class = "exclusion"
    THEN c \in LowerSet \/ IsSpace(c) \/ c = "-"
    ELSE c # "" /\ c # "." /\ c # "\n"

RECURSIVE TriggerEnd(_, _, _)
\* the position after the trigger words matched from position i on, 0 when
\* they do not match there
TriggerEnd(text, words, i) ==
  IF words = <<>> THEN i
  ELSE IF startsWith(text, words[1], i) /\ IsSpace(charAt(text, i + Len(words[1])))
    THEN TriggerEnd(text, Tail(words), SkipSpaces(text, i + Len(words[1])))
    ELSE 0

\* how many characters of the class follow from position j on, at most max
ClassRun(text, class, j, max) ==
  LET stops == { k \in j..Len(text) : ~InClass(class, SubSeq(text, k, k)) }
      run == IF stops = {} THEN Len(text) + 1 - j
             ELSE (CHOOSE k \in stops : \A x \in stops : k <= x) - j
  IN IF run > max THEN max ELSE run

\* The match of a pattern at position p: where its capture starts and how
\* long it is, capture 0 when the pattern does not match at p.  The text is
\* normalized (coerceInputs), every white space in it is a single space, so
\* \s+ has one way to match.
MatchAt(text, alternatives, class, min, max, p) ==
  LET ends == { TriggerEnd(text, a, p) : a \in alternatives } \ {0}
  IN IF ends # {} /\ WordBoundary(text, p)
       THEN LET j == CHOOSE e \in ends : TRUE
                run == ClassRun(text, class, j, max)
            IN IF run >= min THEN [capture |-> j, length |-> run]
               ELSE [capture |-> 0, length |-> 0]
       ELSE [capture |-> 0, length |-> 0]

RECURSIVE ExecFrom(_, _, _)
\* the captures of the successive matches from position p on; matches maps
\* the positions at which the pattern matches to their captures
ExecFrom(text, matches, p) ==
  LET later == { q \in DOMAIN matches : q >= p }
  IN IF later = {} THEN <<>>
     ELSE LET q == CHOOSE x \in later : \A y \in later : x <= y
              m == matches[q]
          IN <<SubSeq(text, m.capture, m.capture + m.length - 1)>>
               \o ExecFrom(text, matches, m.capture + m.length)

\* while ((m = re.exec(text)) !== null) phrases.push(m[1])
ExecAll(text, alternatives, class, min, max) ==
  LET at == [p \in 1..Len(text) |-> MatchAt(text, alternatives, class, min, max, p)]
      matches == [p \in { q \in 1..Len(text) : at[q].capture # 0 } |-> at[p]]
  IN ExecFrom(text, matches, 1)

RECURSIVE ExecPatterns(_, _, _, _, _)
\* for (const re of patterns) { ... }: the captures of all patterns
ExecPatterns(text, patterns, class, min, max) ==
  IF patterns = <<>> THEN <<>>
  ELSE ExecAll(text, patterns[1], class, min, max)
         \o ExecPatterns(text, Tail(patterns), class, min, max)

RECURSIVE split(_)
\* text.split(/[,|\n]/g)
split(text) ==
  LET cuts == { i \in 1..Len(text) : charAt(text, i) \in {",", "|", "\n"} }
  IN IF cuts = {} THEN <<text>>
     ELSE LET i == CHOOSE x \in cuts : \A y \in cuts : x <= y
          IN <<SubSeq(text, 1, i - 1)>> \o split(SubSeq(text, i + 1, Len(text)))

RECURSIVE TagsOf(_, _)
\* for (const phrase of phrases) for (const [key, synonyms] of table)
\*   if (synonyms.some((s) => phrase.includes(s))) set.add(key)
\* : the keys in the order in which the Set receives them
TagsOf(phrases, table) ==
  IF phrases = <<>> THEN <<>>
  ELSE LET hits == SelectSeq(table, LAMBDA e : \E syn \in e.synonyms : includes(phrases[1], syn))
       IN [i \in 1..Len(hits) |-> hits[i].key] \o TagsOf(Tail(phrases), table)

\* a slice that keeps the whole list
sliceKeepsAll(seq, n) == seq

\* Array.prototype.slice(0, n)
slice(seq, n) == SubSeq(seq, 1, IF Len(seq) < n THEN Len(seq) ELSE n)

extractCanonicalTags(notes) ==
  LET text == toLowerCase(notes)
      exclusionPhrases == ExecPatterns(text, exclusionPatterns, "exclusion", 3, 60)
      chunks == split(text)
      listStyle == [i \in 1..Len(chunks) |-> trim(chunks[i])]
      inclusionPhrases == ExecPatterns(text, inclusionPatterns, "inclusion", 3, 120) \o listStyle
  IN [includes |-> slice(Dedupe(TagsOf(inclusionPhrases, CANONICAL_INCLUDE)), 6),
      avoids |-> slice(Dedupe(TagsOf(exclusionPhrases, CANONICAL_AVOID)), 6)]

\* ---- coerceInputs (src/api/generate-preview.js:620-692) -------------------
\* the request sends the canonical keys: recipient and notes are normalized
coerceInputs(rawInputs) ==
  [notes |-> normalizeStr(rawInputs.notes), recipient |-> normalizeStr(rawInputs.recipient)]

\* ---- inferRecipientGroup (src/api/generate-preview.js:694-706) ------------
inferRecipientGroup(recipient, notes) ==
  LET text == toLowerCase(recipient \o " " \o notes)
      female == {"wife", "girlfriend", "mom", "mother", "sister", "daughter", "girl",
                 "woman", "women", "her", "she"}
      male == {"husband", "boyfriend", "dad", "father", "brother", "son", "boy",
               "man", "men", "him", "he"}
      isFemale == \E k \in female : includes(text, k)
      isMale == \E k \in male : includes(text, k)
  IN IF isFemale /\ ~isMale THEN "female"
     ELSE IF isMale /\ ~isFemale THEN "male"
     ELSE "neutral"

\* ---- extractTimeFromNotes (src/api/generate-preview.js:708-712) -----------
\* how many characters ([01]?\d|2[0-3]) takes at position i so that
\* [:.][0-5]\d\b follows: the alternatives in the order the matcher tries them
TimeHourLen(s, i) ==
  LET rest(k) == /\ charAt(s, i + k) \in {":", "."}
                 /\ charAt(s, i + k + 1) \in {"0", "1", "2", "3", "4", "5"}
                 /\ IsDigit(charAt(s, i + k + 2))
                 /\ WordBoundary(s, i + k + 3)
  IN IF charAt(s, i) \in {"0", "1"} /\ IsDigit(charAt(s, i + 1)) /\ rest(2) THEN 2
     ELSE IF IsDigit(charAt(s, i)) /\ rest(1) THEN 1
     ELSE IF charAt(s, i) = "2" /\ charAt(s, i + 1) \in {"0", "1", "2", "3"} /\ rest(2) THEN 2
     ELSE 0

NoTime == ""

extractTimeFromNotes(notes) ==
  LET starts == { i \in 1..Len(notes) : WordBoundary(notes, i) /\ TimeHourLen(notes, i) > 0 }
  IN IF starts = {} THEN NoTime
     ELSE LET i == CHOOSE x \in starts : \A y \in starts : x <= y
              k == TimeHourLen(notes, i)
          IN SubSeq(notes, i, i + k - 1) \o ":" \o SubSeq(notes, i + k + 1, i + k + 2)

\* ---- buildPrompt, canonical (src/api/generate-preview.js:884-1079) --------
INCLUDE_LABEL ==
  [ watch |-> "premium wristwatch/timepiece (analog unless requested otherwise)",
    wallet |-> "premium wallet or card holder",
    jewelry |-> "premium jewelry (necklace/bracelet/ring/earrings as appropriate)",
    sneakers |-> "premium sneakers/shoes (clean, elevated)",
    hoodie |-> "premium hoodie/sweatshirt",
    sweater |-> "premium sweater/knit",
    jacket |-> "premium jacket/outerwear accent",
    hat |-> "premium hat/cap/beanie (structured, elevated)",
    headphones |-> "premium headphones/earbuds",
    speaker |-> "premium speaker (minimal, modern)",
    bag |-> "premium bag (tote/handbag/backpack as appropriate)",
    sunglasses |-> "premium sunglasses",
    belt |-> "premium belt",
    scarf |-> "premium scarf",
    book |-> "book (premium edition aesthetic)",
    journal |-> "journal/notebook (minimal, premium)",
    mug |-> "ceramic mug/cup (premium, minimal)",
    bottle |-> "premium tumbler/water bottle",
    decor |-> "modern sculptural decor object (ceramic/stone/metal)",
    tech_accessory |-> "tech accessory (charging dock/phone accessory; minimal; no text)",
    fitness |-> "fitness accessory (premium, minimal; no cheap plastic)",
    travel |-> "travel accessory (passport cover/luggage tag; minimal; no text)" ]

PALETTES ==
  [ female |-> "soft ivory, warm beige, blush-neutral accents, subtle gold or brass details",
    male |-> "charcoal, black, deep navy, warm gray, brushed metal accents",
    neutral |-> "ivory, stone, warm gray, charcoal accents, minimal restrained tones" ]

\* lines 936-953
GlobalHardNegatives ==
  << "no pillows", "no cushions", "no pillow-shaped items", "no plush pillow forms",
     "no bulky square fabric bundles", "no sheet masks", "no mini or travel-size skincare",
     "no hand cream tubes", "no tea lights", "no votive candles", "no loose cards",
     "no posters", "no unbound prints", "no excessive small items", "no decorative padding" >>

\* lines 1001-1012: the negatives an avoid tag expands to, in the order of the
\* if statements; candles is handled before them (lines 992-999)
AvoidExpansions ==
  << [tag |-> "skincare", negative |-> <<"no skincare", "no lotions", "no creams", "no serums", "no masks">>],
     [tag |-> "fragrance", negative |-> <<"no fragrance", "no perfume", "no cologne">>],
     [tag |-> "socks", negative |-> <<"no socks">>],
     [tag |-> "hats", negative |-> <<"no hats", "no caps", "no beanies">>],
     [tag |-> "plush", negative |-> <<"no plush", "no stuffed animals">>],
     [tag |-> "pillow", negative |-> <<"no pillows", "no cushions">>],
     [tag |-> "blanket", negative |-> <<"no blankets", "no throws">>],
     [tag |-> "paper", negative |-> <<"no greeting cards", "no paper inserts", "no posters", "no prints">>],
     [tag |-> "alcohol", negative |-> <<"no alcohol", "no wine", "no spirits">>],
     [tag |-> "food", negative |-> <<"no food", "no snacks", "no candy", "no chocolate">>],
     [tag |-> "clutter", negative |-> <<"no cheap plastic", "no novelty items", "no gag gifts">>] >>

RECURSIVE Flatten(_)
\* the lists of a list of lists, one after the other
Flatten(lists) == IF lists = <<>> THEN <<>> ELSE lists[1] \o Flatten(Tail(lists))

\* a text/logo control that takes the words logo and brand for a request
\* in strict mode too
wantsBrandsOrLogosInAnyMode(permittedBrands, notesText) ==
  \/ permittedBrands # <<>>
  \/ includes(notesText, "logo") \/ includes(notesText, "brand")

\* lines 899-907
wantsBrandsOrLogos(permittedBrands, notesText) ==
  LET requestedBrandWords ==
        \/ includes(notesText, "logo") \/ includes(notesText, "logos")
        \/ includes(notesText, "brand") \/ includes(notesText, "branded")
  IN IF CONSTRAINTS.STRICT_BRAND_MODE
       THEN permittedBrands # <<>>
       ELSE permittedBrands # <<>> \/ requestedBrandWords

\* The lists are built by pushes; each list is written here as the pushes in
\* the order of the source.  (An en dash of the source is written "-".)
buildPrompt(in, t) ==
  LET isSignature == includes(toLowerCase(t), "signature")
      notesText == toLower(in.notes)
      recipientGroup == inferRecipientGroup(in.recipient, in.notes)
      requestedTime == extractTimeFromNotes(in.notes)
      canonical == extractCanonicalTags(in.notes)
      avoidSet == Range(canonical.avoids)
      hasUserSpecificFocus == Len(canonical.includes) > 0
      brandScan == detectBrands(notesText)
      permittedBrands == brandScan.permitted
      blockedBrands == brandScan.blocked
      wants == wantsBrandsOrLogos(permittedBrands, notesText)
      wantsWatch == includes(notesText, "watch") \/ includes(notesText, "timepiece")
                      \/ requestedTime # NoTime
      focusItems == [i \in 1..Len(canonical.includes) |-> INCLUDE_LABEL[canonical.includes[i]]]
      expansions == SelectSeq(AvoidExpansions, LAMBDA e : e.tag \in avoidSet)
      MUST_INCLUDE ==
        << "apply a " \o recipientGroup \o " premium palette: " \o PALETTES[recipientGroup] >>
        \o (IF wants
              THEN << "include visible brand logos and specific branded items ONLY if explicitly requested and permitted",
                      "avoid random extra brands not requested",
                      "no invented brands" >>
              ELSE <<>>)
        \o << "volume must come from structured items (rigid boxes, hard cases, ceramic/metal objects), not pillow-like textiles",
              "throws or blankets allowed only if folded/draped as a thin premium textile accent, not dominant and not pillow-like" >>
        \o (IF isSignature
              THEN << "show a nested 3-tier gift box presentation: top box open, middle box partially visible, bottom box hinted",
                      "clearly show multiple boxes and layered depth (not a single box only)",
                      "include ONE dominant modern sculptural lifestyle object as the hero (ceramic, stone, resin, metal, or leather)",
                      "hero object must feel trend-forward and expensive",
                      "all other items must be secondary and smaller" >>
              ELSE << "show one premium gift box open with contents clearly visible; 3-6 items max; strong negative space" >>)
        \o << "gift shop trinkets are allowed if premium-looking; limit to ONE small accent item; avoid cheap plastic",
              "bath bombs or lip balm allowed only as a single small secondary accent when appropriate; must not dominate",
              "soft cosmetic bags allowed only if OPEN with contents visible (no closed or zipped bags)" >>
        \o (IF "candles" \notin avoidSet
              THEN << "candle sets are allowed; maximum two candles; substantial vessels; premium materials; not tea lights or votives" >>
              ELSE <<>>)
        \o (IF wantsWatch
              THEN << "include a premium wristwatch/timepiece as a visible item",
                      "watch should be shown in an open presentation case or tray",
                      "avoid smartwatch appearance unless explicitly requested" >>
                   \o (IF requestedTime # NoTime
                         THEN << "watch must show the exact time " \o requestedTime,
                                 "make the watch face large and clearly readable" >>
                         ELSE <<>>)
              ELSE <<>>)
        \o (IF hasUserSpecificFocus
              THEN << "PRIMARY FOCUS ITEMS (from Notes): " \o join(focusItems, "; "),
                      "center the composition around these items",
                      "any non-requested items must be minimal, generic, and secondary",
                      "avoid filler items that dilute the requested focus" >>
                   \o (IF wants
                         THEN << "if a brand is explicitly requested in Notes and permitted, show only that brand (no extra brands)" >>
                         ELSE <<>>)
              ELSE <<>>)
        \o (IF permittedBrands # <<>>
              THEN << "permitted brand requests: " \o join(permittedBrands, ", ") \o " (include ONLY these, if shown)" >>
              ELSE <<>>)
        \o (IF blockedBrands # <<>>
              THEN << "blocked brand requests detected (DO NOT include): " \o join(blockedBrands, ", ") >>
              ELSE <<>>)
        \o << "no readable text anywhere unless explicitly requested" >>
      NEGATIVE ==
        (IF ~wants
           THEN << "no logos", "no brand names", "no readable labels", "no readable text", "no typography" >>
           ELSE << "no watermarks", "no UI elements", "no extra brand logos" >>)
        \o (IF blockedBrands # <<>>
              THEN << "no " \o join(blockedBrands, " brand, no ") \o " brand",
                      "no luxury designer branding unless explicitly permitted" >>
              ELSE <<>>)
        \o GlobalHardNegatives
        \o (IF isSignature
              THEN << "no single-box-only composition",
                      "no consumable item as hero",
                      "no candle, skincare, fragrance, journal, or self-care item as the primary object",
                      "no spa-kit look",
                      "no cluttered assortment of small consumables" >>
              ELSE << "no cluttered overflowing box" >>)
        \o << "no closed cosmetic bags", "no zipped cosmetic pouches" >>
        \o (IF "candles" \notin avoidSet
              THEN <<>>
              ELSE << "no candles", "no candle-like objects", "no wax items" >>)
        \o Flatten([i \in 1..Len(expansions) |-> expansions[i].negative])
        \o (IF wantsWatch THEN << "no smartwatches unless requested" >> ELSE <<>>)
        \o (IF hasUserSpecificFocus
              THEN << "no random extra categories not requested", "no unrelated novelty items" >>
                   \o (IF wants
                         THEN << "no additional brands beyond the requested/permitted set" >>
                         ELSE <<>>)
              ELSE <<>>)
  IN [fn |-> "buildPrompt", MUST_INCLUDE |-> MUST_INCLUDE, NEGATIVE |-> NEGATIVE,
      canonical |-> canonical, brandScan |-> brandScan, wantsBrandsOrLogos |-> wants]

\* The notes of the prompt texts: one to MaxPhrases phrases, a comma between
\* them, as a customer lists wishes.
NotePhrases ==
  { "no bath bombs", "no hats", "Reebok hat", "include a  mug",
    "gucci logo", "nike watch 10.30",
    "no candles socks wine soap pillow blanket perfume",
    "watch wallet ring shoes hoodie knit coat" }

PromptNotes ==
  { join(ps, ", ") : ps \in UNION { [1..k -> NotePhrases] : k \in 1..MaxPhrases } }

\* no list, an allow list or a deny list, in strict and in non-strict mode
PromptPolicies ==
  { c \in BrandPolicies : <<c.ALLOWED_BRANDS, c.DISALLOWED_BRANDS>> \in
                            { <<{}, {}>>, <<{"nike"}, {}>>, <<{}, {"gucci"}>> } }

\* who the box is for and its tier
PromptOrders ==
  { [recipient |-> "Wife", tier |-> "Curated"], [recipient |-> "Friend", tier |-> "Signature"] }

PromptInit ==
  /\ HandlersAtRest("canonical")
  /\ CONSTRAINTS \in PromptPolicies
  /\ \E t \in PromptNotes, o \in PromptOrders :
       /\ inputs = [notes |-> t, recipient |-> o.recipient]
       /\ tier = o.tier
  /\ result = NoResult

\* const inputs = coerceInputs(rawInputs); const prompt = buildPrompt({ inputs, tier })
BuildPrompt ==
  /\ result = NoResult
  /\ result' = buildPrompt(coerceInputs(inputs), tier)
  /\ UNCHANGED <<handlerVars, CONSTRAINTS, inputs, tier>>

PromptNext == BuildPrompt

PromptSpec == PromptInit /\ [][PromptNext]_vars

\* ---- C13: avoid tags expand and suppress the defaults ----------------------
\* the negatives the prompt builder has for an avoid tag (lines 992-1012); none
\* for a tag the builder has no branch for
ExpansionOf(T) ==
  IF T = "candles" THEN << "no candles", "no candle-like objects", "no wax items" >>
  ELSE Flatten([i \in 1..Len(SelectSeq(AvoidExpansions, LAMBDA e : e.tag = T)) |->
                  SelectSeq(AvoidExpansions, LAMBDA e : e.tag = T)[i].negative])

\* the default entries of MUST-INCLUDE that allow a category an avoid tag names
AllowedDefaults ==
  << [tag |-> "candles",
      default |-> "candle sets are allowed; maximum two candles; substantial vessels; premium materials; not tea lights or votives"],
     [tag |-> "blanket",
      default |-> "throws or blankets allowed only if folded/draped as a thin premium textile accent, not dominant and not pillow-like"],
     [tag |-> "bath",
      default |-> "bath bombs or lip balm allowed only as a single small secondary accent when appropriate; must not dominate"] >>

DefaultsAllowing(T) ==
  { AllowedDefaults[i].default : i \in { j \in 1..Len(AllowedDefaults) : AllowedDefaults[j].tag = T } }

\* C13: for every avoid tag T extracted from the notes, NEGATIVE holds T's
\* expansion phrases and MUST-INCLUDE holds no default that allows T's category.
C13_AvoidTagsExpandAndSuppressDefaults ==
  result.fn = "buildPrompt" =>
    \A T \in Range(result.canonical.avoids) :
      /\ ExpansionOf(T) # <<>>
      /\ Range(ExpansionOf(T)) \subseteq Range(result.NEGATIVE)
      /\ DefaultsAllowing(T) \cap Range(result.MUST_INCLUDE) = {}

\* ---- C14: no category both asserted and forbidden --------------------------
\* the words of a tag of a table
SynonymsOf(table, key) ==
  UNION { table[i].synonyms : i \in { j \in 1..Len(table) : table[j].key = key } }

\* an include tag and an avoid tag name the same category when they share a word
SameCategory(k, T) == SynonymsOf(CANONICAL_INCLUDE, k) \cap SynonymsOf(CANONICAL_AVOID, T) # {}

\* the focus-mode entry of MUST-INCLUDE names the include tag k
FocusNames(k) ==
  \E m \in Range(result.MUST_INCLUDE) :
    startsWith(m, "PRIMARY FOCUS ITEMS", 1) /\ includes(m, INCLUDE_LABEL[k])

\* an avoid expansion of NEGATIVE forbids the avoid tag T
ExpansionForbids(T) == Range(ExpansionOf(T)) \cap Range(result.NEGATIVE) # {}

\* C14: no category named in the focus-mode MUST-INCLUDE entry is forbidden by
\* an avoid expansion in NEGATIVE; of a request and an exclusion of the same
\* category only one is emitted.
C14_NeverAssertAndForbid ==
  result.fn = "buildPrompt" =>
    \A k \in DOMAIN INCLUDE_LABEL, T \in { CANONICAL_AVOID[i].key : i \in 1..Len(CANONICAL_AVOID) } :
      SameCategory(k, T) => ~(FocusNames(k) /\ ExpansionForbids(T))

\* ---- C19: standing brand negatives -----------------------------------------
\* the standing negatives forbidding logos, brand names and readable text
StandingBrandNegatives == {"no logos", "no brand names", "no readable text"}

NoPermittedBrand == result.brandScan.permitted = <<>>

\* NEGATIVE has an entry naming every blocked brand
BlockedBrandsNamed ==
  \A b \in Range(result.brandScan.blocked) :
    \E n \in Range(result.NEGATIVE) : includes(n, "no " \o b \o " brand")

\* the notes hold one of the words logo, logos, brand, branded
NotesAskForLogos ==
  includes(toLowerCase(inputs.notes), "logo") \/ includes(toLowerCase(inputs.notes), "brand")

\* C19 as stated: whenever no permitted brand exists, in strict and in
\* non-strict mode, NEGATIVE holds the standing negatives; every blocked brand
\* is named in NEGATIVE.
C19_StandingNegativesWithoutPermittedBrand ==
  result.fn = "buildPrompt" =>
    /\ NoPermittedBrand => StandingBrandNegatives \subseteq Range(result.NEGATIVE)
    /\ BlockedBrandsNamed

\* C19 amended: when no permitted brand exists, NEGATIVE holds the standing
\* negatives exactly when strict mode is on or the notes do not hold the words
\* logo or brand (otherwise none of them, and "no extra brand logos" instead);
\* every blocked brand is named in NEGATIVE.
C19_StandingNegativesUnlessLogosAsked ==
  result.fn = "buildPrompt" =>
    /\ NoPermittedBrand =>
          IF CONSTRAINTS.STRICT_BRAND_MODE \/ ~NotesAskForLogos
            THEN StandingBrandNegatives \subseteq Range(result.NEGATIVE)
            ELSE /\ StandingBrandNegatives \cap Range(result.NEGATIVE) = {}
                 /\ "no extra brand logos" \in Range(result.NEGATIVE)
    /\ BlockedBrandsNamed

\* a strict-mode request whose only brand is blocked and whose notes ask for a
\* logo: the standing negatives and the blocked brand are in NEGATIVE
C19_Witness ==
  /\ result.fn = "buildPrompt"
  /\ CONSTRAINTS.STRICT_BRAND_MODE
  /\ NoPermittedBrand
  /\ result.brandScan.blocked = <<"gucci">>
  /\ NotesAskForLogos
  /\ StandingBrandNegatives \subseteq Range(result.NEGATIVE)
  /\ "no gucci brand" \in Range(result.NEGATIVE)

\* ---- C20: standing safety negatives ----------------------------------------
\* NEGATIVE has an entry forbidding the subject
Forbids(subject) ==
  \E n \in Range(result.NEGATIVE) : startsWith(n, "no ", 1) /\ includes(n, subject)

\* C20: for every request the composed NEGATIVE list forbids explicit content,
\* weapons and graphic violence.
C20_SafetyNegativesAlwaysPresent ==
  result.fn = "buildPrompt" =>
    Forbids("explicit content") /\ Forbids("weapons") /\ Forbids("graphic violence")

\* =============================================================================
\* The combined prompt builder (src/api/generate-preview.js:125-355)
\* =============================================================================

\* ---- option maps (lines 125-209) --------------------------------------------
\* lines 126-172
OCCASION_MOTIFS ==
  << [key |-> "Birthday",
      motifs |-> << "birthday-themed items visible",
                  "small celebration accents (confetti, candles, ribbon)",
                  "a greeting card or gift tag vibe" >>],
     [key |-> "Christmas",
      motifs |-> << "holiday-themed items visible",
                  "winter/evergreen accents, cozy seasonal feel",
                  "gift wrap details, festive but premium" >>],
     [key |-> "Halloween",
      motifs |-> << "halloween-themed items visible",
                  "spooky and horror influence without gore",
                  "classic horror movie vibe (retro cinematic lighting, moody shadows, vintage horror aesthetic)",
                  "pumpkin/orange/black accents, eerie candlelight, foggy ambience",
                  "include subtle classic horror props (unbranded): old film reel, vintage VHS tape, gothic candle, small skull figurine" >>],
     [key |-> "New Years",
      motifs |-> << "new year celebration feel",
                  "sparkle accents, classy festive styling",
                  "midnight celebration vibe (not nightclub)" >>],
     [key |-> "Baby shower",
      motifs |-> << "baby-themed items visible",
                  "onesie or baby clothing",
                  "baby blanket or soft plush",
                  "pacifier or baby bottle",
                  "gentle pastel styling" >>],
     [key |-> "Easter",
      motifs |-> << "easter-themed items visible",
                  "spring/pastel accents, soft cheerful styling",
                  "chocolate eggs or bunny motif" >>],
     [key |-> "Valentines Day",
      motifs |-> << "romantic-themed items visible",
                  "rose or heart accents, warm intimate styling",
                  "love note card vibe" >>],
     [key |-> "Just Because",
      motifs |-> << "thoughtful everyday gift feel",
                  "cozy, uplifting, personal touches",
                  "subtle, not overly seasonal" >>] >>

\* lines 174-189
RECIPIENT_MOTIFS ==
  << [key |-> "Boyfriend",
      motifs |-> << "romantic but tasteful items appropriate for a boyfriend; not stereotypical" >>],
     [key |-> "Girlfriend",
      motifs |-> << "romantic but tasteful items appropriate for a girlfriend; not stereotypical" >>],
     [key |-> "Husband",
      motifs |-> << "mature, refined, practical + sentimental mix appropriate for a husband" >>],
     [key |-> "Wife",
      motifs |-> << "mature, refined, sentimental + elegant mix appropriate for a wife" >>],
     [key |-> "Someone I'm dating",
      motifs |-> << "early-relationship appropriate (sweet, not intense), polished and safe" >>],
     [key |-> "Friend",
      motifs |-> << "friendly, fun, not romantic, universally likeable items" >>],
     [key |-> "Sibling",
      motifs |-> << "playful, casual, non-romantic items, fun but thoughtful" >>],
     [key |-> "Mom",
      motifs |-> << "warm, caring, elevated comfort vibe, appreciative touches" >>],
     [key |-> "Dad",
      motifs |-> << "warm, practical, classic vibe, appreciative touches" >>],
     [key |-> "Parent",
      motifs |-> << "warm, appreciative, elevated comfort vibe; practical + sentimental mix" >>],
     [key |-> "Son",
      motifs |-> << "kid-appropriate items; playful and fun; no adult themes" >>],
     [key |-> "Daughter",
      motifs |-> << "kid-appropriate items; warm and playful; no adult themes" >>],
     [key |-> "Relative",
      motifs |-> << "neutral, family-friendly items; avoid romantic themes" >>],
     [key |-> "My Pet",
      motifs |-> << "pet-themed items visible; treats, toys, accessories; cute but premium" >>] >>

\* lines 191-209
VIBE_STYLE ==
  << [key |-> "Minimalist",
      motifs |-> << "minimal, uncluttered composition",
                  "neutral or soft muted palette",
                  "clean premium packaging" >>],
     [key |-> "Luxury",
      motifs |-> << "high-end premium look",
                  "richer textures",
                  "elevated presentation" >>],
     [key |-> "Playful",
      motifs |-> << "brighter accents",
                  "fun, lively styling" >>],
     [key |-> "Surprise me",
      motifs |-> << "balanced, universally appealing styling that matches the occasion" >>] >>

\* lines 221-231
BRAND_NEGATIVE ==
  << "no text overlays",
     "no typography",
     "no labels or readable packaging text",
     "no watermarks",
     "no UI elements",
     "no empty boxes",
     "no closed lids",
     "no sealed packaging",
     "no boxes without visible contents" >>

\* lines 234-251: { keyword: rule } in the order of the keys
CATEGORY_KEYWORDS ==
  << [key |-> "toy", rule |-> "include at least one age-appropriate toy item"],
     [key |-> "toys", rule |-> "include at least one age-appropriate toy item"],
     [key |-> "shoes", rule |-> "include at least one footwear-related item"],
     [key |-> "sneaker", rule |-> "include at least one footwear-related item"],
     [key |-> "sneakers", rule |-> "include at least one footwear-related item"],
     [key |-> "jewelry", rule |-> "include at least one refined jewelry/accessory item"],
     [key |-> "gaming", rule |-> "include at least one gaming-related accessory (controller/headset/accessory)"],
     [key |-> "sports", rule |-> "include at least one sports-related lifestyle item"],
     [key |-> "books", rule |-> "include at least one aesthetically pleasing book/notebook item"],
     [key |-> "watch", rule |-> "include at least one watch-like accessory item"],
     [key |-> "watches", rule |-> "include at least one watch-like accessory item"],
     [key |-> "ring", rule |-> "include at least one ring-like accessory item"],
     [key |-> "rings", rule |-> "include at least one ring-like accessory item"],
     [key |-> "flowers", rule |-> "include a floral element integrated tastefully (bouquet or floral item)"],
     [key |-> "teddy", rule |-> "include a teddy bear or plush element appropriate to the recipient"],
     [key |-> "bear", rule |-> "include a bear/plush element appropriate to the recipient"] >>

\* ---- property lookup (lines 272-274) ----------------------------------------
\* the members every plain object inherits from Object.prototype
ObjectPrototypeKeys ==
  { "constructor", "toString", "toLocaleString", "valueOf", "hasOwnProperty",
    "isPrototypeOf", "propertyIsEnumerable", "__proto__", "__defineGetter__",
    "__defineSetter__", "__lookupGetter__", "__lookupSetter__" }

undefined == [kind |-> "undefined", motifs |-> <<>>]

\* TABLE[key]: the own member of that name, else the inherited member (a
\* function, or the prototype object for __proto__), else undefined
Member(table, key) ==
  LET own == SelectSeq(table, LAMBDA e : e.key = key)
  IN IF own # <<>> THEN [kind |-> "array", motifs |-> own[1].motifs]
     ELSE IF key \in ObjectPrototypeKeys THEN [kind |-> "inherited", motifs |-> <<>>]
     ELSE undefined

\* member || [fallback]: every member but undefined is truthy
OrFallback(member, fallback) ==
  IF member = undefined THEN [kind |-> "array", motifs |-> <<fallback>>] ELSE member

\* ---- extractCategories (lines 259-267) --------------------------------------
\* A keyword the pattern (^|\W)k(\W|$) finds in the text, whatever the case of
\* its letters, is a part of the lower-cased text: found holds the keywords
\* the lower-cased text includes, in the order of the keys.
extractCategories(anythingElse) ==
  LET text == toLower(anythingElse)
      found == SelectSeq(CATEGORY_KEYWORDS, LAMBDA e : includes(text, e.key))
  IN Dedupe([i \in 1..Len(found) |-> found[i].key])

\* ---- buildPrompt of the combined handler (lines 270-355) --------------------
\* a NEGATIVE list in which themed mode replaces the avoid rules of the notes
NegativeThemeReplacesAvoid(notesRules, occasion) ==
  BRAND_NEGATIVE
    \o << "no logos", "no readable words on packaging", "no explicit content", "no alcohol",
          "no weapons", "no lingerie", "no cigarettes or drugs", "no gore", "no graphic violence" >>
    \o (IF notesRules.horrorMode \/ occasion = "Halloween"
          THEN << "no recognizable copyrighted characters",
                  "no brand names or franchise logos",
                  "no gore or graphic violence" >>
          ELSE notesRules.avoid)

\* lines 300-318
Negative(notesRules, occasion) ==
  BRAND_NEGATIVE
    \o << "no logos", "no readable words on packaging", "no explicit content", "no alcohol",
          "no weapons", "no lingerie", "no cigarettes or drugs", "no gore", "no graphic violence" >>
    \o notesRules.avoid
    \o (IF notesRules.horrorMode \/ occasion = "Halloween"
          THEN << "no recognizable copyrighted characters",
                  "no brand names or franchise logos",
                  "no gore or graphic violence" >>
          ELSE <<>>)

\* lines 272-274: TABLE[inputs.x] || [fallback]
RulesOf(table, key, fallback) == OrFallback(Member(table, key), fallback)

\* The prompt is a text made of the lists; the value keeps the lists.  The
\* template calls join on the three rule lists (lines 340-342): a list that is
\* no array has no join and the call throws a TypeError.
combinedBuildPrompt(in, t) ==
  LET notesRules == buildNotesRules(in.notes)
      occasionRulesArr == RulesOf(OCCASION_MOTIFS, in.occasion, "items should clearly match the occasion")
      recipientRulesArr == RulesOf(RECIPIENT_MOTIFS, in.recipient, "items should clearly match the recipient type")
      vibeRulesArr == RulesOf(VIBE_STYLE, in.vibe, "styling should match the selected vibe")
      isSignature == includes(toLowerCase(t), "signature")
      BOX_COUNT == IF isSignature THEN 3 ELSE 2
      MIN_ITEMS_PER_BOX == IF isSignature THEN 4 ELSE 3
      categories == extractCategories(in.notes)
      rule(c) == SelectSeq(CATEGORY_KEYWORDS, LAMBDA e : e.key = c)[1].rule
      categoryLines ==
        [i \in 1..Len(categories) |->
           "- Must include: " \o rule(categories[i]) \o " (trigger: \"" \o categories[i] \o "\")"]
      MUST_INCLUDE ==
        << "show " \o ToString(BOX_COUNT) \o " open nested boxes (top, middle"
             \o (IF BOX_COUNT = 3 THEN ", bottom" ELSE "")
             \o "), each box OPEN with lid removed or pushed aside",
           "at least " \o ToString(MIN_ITEMS_PER_BOX)
             \o " distinct items clearly visible in EACH box (minimum total items visible: "
             \o ToString(BOX_COUNT * MIN_ITEMS_PER_BOX) \o ")",
           "items must be separated enough to count visually (not hidden under tissue paper)",
           "some items can peek out for depth, but keep a premium uncluttered layout",
           "avoid empty space that looks like missing items" >>
        \o (IF in.occasion = "Baby shower"
              THEN << "include at least TWO baby items clearly visible: onesie, baby bottle, pacifier, baby blanket, plush toy" >>
              ELSE <<>>)
        \o (IF in.recipient = "My Pet"
              THEN << "include pet items clearly visible: pet treats, toy, collar or accessory" >>
              ELSE <<>>)
      NEGATIVE == Negative(notesRules, in.occasion)
      threw == \E arr \in {occasionRulesArr, recipientRulesArr, vibeRulesArr} : arr.kind # "array"
  IN IF threw
       THEN [fn |-> "buildPrompt", threw |-> TRUE, MUST_INCLUDE |-> <<>>, NEGATIVE |-> <<>>,
             occasionRules |-> <<>>, recipientRules |-> <<>>, vibeRules |-> <<>>,
             hard |-> <<>>, categoryLines |-> <<>>, horrorMode |-> notesRules.horrorMode]
       ELSE [fn |-> "buildPrompt", threw |-> FALSE, MUST_INCLUDE |-> MUST_INCLUDE,
             NEGATIVE |-> NEGATIVE,
             occasionRules |-> occasionRulesArr.motifs,
             recipientRules |-> recipientRulesArr.motifs,
             vibeRules |-> vibeRulesArr.motifs,
             hard |-> IF notesRules.hard # <<>> THEN notesRules.hard
                      ELSE << "use notes to meaningfully influence item selection when specific" >>,
             categoryLines |-> categoryLines, horrorMode |-> notesRules.horrorMode]

\* ---- the requests of the combined prompt builder ----------------------------
MaxThemeWords == 1   \* theme words at the end of a notes text

\* notes that name no theme
PlainNotes == {"", "avoid nuts", "she is 9 years old, loves books", "surprise me", "no perfume, blue toys"}

ThemeWords == {"Horror movie", "gothic", "haunted"}

\* the theme words a customer adds to the notes
Themes == { Concat([i \in 1..Len(ws) |-> " " \o ws[i]]) :
              ws \in UNION { [1..k -> ThemeWords] : k \in 0..MaxThemeWords } }

\* the options of the form, a missing value, and what any other client may send
Occasions == {"Birthday", "Halloween", "Baby shower", "", "Graduation", "constructor"}
Recipients == {"Wife", "My Pet", "", "toString"}
Vibes == {"Luxury", "", "Cosy"}

ComposeInit ==
  /\ HandlersAtRest("combined")
  /\ CONSTRAINTS = DefaultConstraints
  /\ inputs \in { [occasion |-> o, recipient |-> r, vibe |-> v, notes |-> p \o th] :
                    o \in Occasions, r \in Recipients, v \in Vibes, p \in PlainNotes, th \in Themes }
  /\ tier \in {"Starter", "Signature"}
  /\ result = NoResult

\* const prompt = buildPrompt({ inputs, tier }) (line 445)
CombinedBuildPrompt ==
  /\ result = NoResult
  /\ result' = combinedBuildPrompt(inputs, tier)
  /\ UNCHANGED <<handlerVars, CONSTRAINTS, inputs, tier>>

ComposeNext == CombinedBuildPrompt

ComposeSpec == ComposeInit /\ [][ComposeNext]_vars

\* ---- C21: themed mode only adds ---------------------------------------------
\* the NEGATIVE list of the same request without the theme words
WithoutTheme(p) == combinedBuildPrompt([inputs EXCEPT !.notes = p], tier)

\* C21: with themed mode detected NEGATIVE holds every entry of the NEGATIVE
\* list of the same request without the theme words, and a hard negative
\* against gore and graphic violence.
C21_ThemedModeOnlyAdds ==
  (result.fn = "buildPrompt" /\ ~result.threw /\ result.horrorMode) =>
    /\ "no gore or graphic violence" \in Range(result.NEGATIVE)
    /\ \A p \in PlainNotes, th \in Themes :
         (inputs.notes = p \o th /\ ~WithoutTheme(p).horrorMode)
           => Range(WithoutTheme(p).NEGATIVE) \subseteq Range(result.NEGATIVE)

\* a themed request whose notes also carry an avoid rule, on an occasion that
\* is not Halloween
C21_Witness ==
  /\ result.fn = "buildPrompt" /\ ~result.threw /\ result.horrorMode
  /\ inputs.occasion = "Birthday"
  /\ inputs.notes = "avoid nuts gothic"
  /\ "avoid nuts" \in Range(WithoutTheme("avoid nuts").NEGATIVE)
  /\ "avoid nuts" \in Range(result.NEGATIVE)
  /\ "no gore or graphic violence" \notin Range(WithoutTheme("avoid nuts").NEGATIVE)

\* ---- C22: lexicon fallback --------------------------------------------------
OwnKeys(table) == { table[i].key : i \in 1..Len(table) }

\* C22: an occasion, recipient or vibe that is no key of its table gets the one
\* generic fallback phrase of its concern, and prompt building completes.
C22_UnknownKeyFallsBack ==
  result.fn = "buildPrompt" =>
    /\ ~result.threw
    /\ inputs.occasion \notin OwnKeys(OCCASION_MOTIFS)
         => result.occasionRules = << "items should clearly match the occasion" >>
    /\ inputs.recipient \notin OwnKeys(RECIPIENT_MOTIFS)
         => result.recipientRules = << "items should clearly match the recipient type" >>
    /\ inputs.vibe \notin OwnKeys(VIBE_STYLE)
         => result.vibeRules = << "styling should match the selected vibe" >>

\* ---- C23: focus mode -------------------------------------------------------
\* the places of MUST-INCLUDE that hold a PRIMARY FOCUS entry
FocusEntries ==
  { i \in 1..Len(result.MUST_INCLUDE) : startsWith(result.MUST_INCLUDE[i], "PRIMARY FOCUS ITEMS", 1) }

\* the labels of the include tags, in their order, as the entry names them
FocusLabels(tags) == join([i \in 1..Len(tags) |-> INCLUDE_LABEL[tags[i]]], "; ")

SecondaryEntry == "any non-requested items must be minimal, generic, and secondary"
NoveltyNegative == "no unrelated novelty items"

\* C23: focus mode is entered exactly when the include tags are not empty: then
\* MUST-INCLUDE has one PRIMARY FOCUS entry naming every retained include tag
\* (at most 6, in retained order) and the secondary-items entry, and NEGATIVE
\* has the novelty negative; with no include tag none of them is present.
C23_FocusModeIffIncludeTags ==
  result.fn = "buildPrompt" =>
    LET tags == result.canonical.includes
    IN IF tags # <<>>
         THEN /\ Len(tags) <= 6
              /\ Cardinality(FocusEntries) = 1
              /\ \A i \in FocusEntries :
                    result.MUST_INCLUDE[i] = "PRIMARY FOCUS ITEMS (from Notes): " \o FocusLabels(tags)
              /\ SecondaryEntry \in Range(result.MUST_INCLUDE)
              /\ NoveltyNegative \in Range(result.NEGATIVE)
         ELSE /\ FocusEntries = {}
              /\ SecondaryEntry \notin Range(result.MUST_INCLUDE)
              /\ NoveltyNegative \notin Range(result.NEGATIVE)

\* a request naming seven categories: six are retained and the entry names
\* them in their order
C23_Witness ==
  /\ result.fn = "buildPrompt"
  /\ inputs.notes = "watch wallet ring shoes hoodie knit coat"
  /\ result.canonical.includes = <<"watch", "wallet", "jewelry", "sneakers", "hoodie", "sweater">>
  /\ FocusEntries # {}
  /\ NoveltyNegative \in Range(result.NEGATIVE)

\* ---- C30: excluded text is no include tag ----------------------------------
ExclusionTriggers == {"no ", "without ", "exclude ", "don't include ", "dont include "}

\* every phrase of the notes (the parts between commas) is an exclusion phrase
ExclusionOnly(notes) ==
  LET chunks == split(toLowerCase(notes))
  IN \A i \in 1..Len(chunks) : \E w \in ExclusionTriggers : startsWith(trim(chunks[i]), w, 1)

\* C30: for notes made of exclusion phrases only, extractCanonicalTags returns
\* no include tag and focus mode is not entered.
C30_ExcludedTextIsNoIncludeTag ==
  (result.fn = "buildPrompt" /\ ExclusionOnly(inputs.notes)) =>
    /\ result.canonical.includes = <<>>
    /\ FocusEntries = {}

\* =============================================================================
\* The handlers again: the provider-agnostic endpoint and the attempts
\* =============================================================================

\* ---- C24: the provider-agnostic endpoint always answers with an image -------
\* the provider of the answered request did not deliver: it was not asked
\* (unknown AI_PROVIDER, missing token) or its call failed, timed out or
\* brought no URL
ProviderDidNotDeliver(rec) == rec.got = 0

Running ==
  { req[r] : r \in { q \in Requests : InFlight(q) } }
    \cup (IF Answered THEN {last.rec} ELSE {})

\* C25: a request makes at most K = 2 backend calls, one after the other: a
\* further call only after the verifier rejected the attempt before it, none
\* after an accepted verdict; with verification disabled one backend call and
\* no verifier call; never more verifier calls than backend calls.
C25_AttemptsAreSequentialAndBounded ==
  /\ \A rec \in Running :
       /\ rec.calls <= maxAttempts
       /\ rec.calls = rec.attempt
       /\ rec.calls <= rec.rejected + 1
       /\ rec.vcalls <= rec.calls
       /\ rec.vcalls <= rec.got
       /\ ~cfg.validate => rec.calls <= 1 /\ rec.vcalls = 0
       /\ rec.pc = "gen" => rec.verdict = "none"
  /\ (Answered /\ last.rec.verdict = "ok") =>
       /\ last.resp.status = 200
       /\ last.rec.calls = last.rec.rejected + 1
  /\ (Answered /\ last.resp.status = 200 /\ last.resp.used # NoUsed /\ ~cfg.validate) =>
       last.rec.calls = 1

\* the first attempt was rejected, the second was made after the verdict and
\* accepted
C25_Witness ==
  /\ cfg.variant = "combined" /\ cfg.validate
  /\ Answered
  /\ last.rec.calls = 2 /\ last.rec.vcalls = 2
  /\ last.rec.rejected = 1 /\ last.rec.verdict = "ok"

\* =============================================================================
\* validateWithVision (src/api/generate-preview.js:382-420)
\* =============================================================================

\* ---- JavaScript values of two types -----------------------------------------
Boolean(b) == [type |-> "boolean", value |-> IF b THEN "true" ELSE "false"]
String(s) == [type |-> "string", value |-> s]

\* !x of a string: true for the empty string
Not(x) == Boolean(x.value = "")

\* x === y: the same type and the same value
StrictEquals(x, y) == x.type = y.type /\ x.value = y.value

\* line 383: !String(process.env.VALIDATE_WITH_VISION || "").toLowerCase() === "true"
DisabledTest(env) == StrictEquals(Not(String(toLowerCase(env))), String("true"))

\* line 464: String(process.env.VALIDATE_WITH_VISION || "").toLowerCase() === "true"
ValidationEnabled(env) == StrictEquals(String(toLowerCase(env)), String("true"))

\* what the function has done: pc is "awaiting" while the verifier is asked
Validation(pc, verifierCalls, ok, reason) ==
  [fn |-> "validateWithVision", pc |-> pc, verifierCalls |-> verifierCalls,
   ok |-> ok, reason |-> reason]

\* lines 383-386: the two early returns, else the verifier is called
validateWithVision(env, mustReflect) ==
  IF DisabledTest(env) THEN Validation("returned", 0, TRUE, "disabled")
  ELSE IF normalizeStr(mustReflect) = "" THEN Validation("returned", 0, TRUE, "no_notes")
  ELSE Validation("awaiting", 1, FALSE, "absent")

\* lines 411-419: the text of the verifier's reply is parsed; a text that is
\* no JSON gives the parse-error verdict
VerifierReplies == {"{\"ok\": true}", "{\"ok\": false}", "not sure", "throw"}

Verdict(text) ==
  IF text = "{\"ok\": true}" THEN Validation("returned", 1, TRUE, "absent")
  ELSE IF text = "{\"ok\": false}" THEN Validation("returned", 1, FALSE, "absent")
  ELSE IF text = "throw" THEN Validation("threw", 1, FALSE, "absent")
  ELSE Validation("returned", 1, FALSE, "validation_parse_error")

\* the values of the environment variable and the notes
VisionEnvs == {"", "true", "TRUE", "True", "false", "1", "yes", "on"}
VisionNotes == {"", "   ", "blue toys", " teddy bear ", "she is 9 years old"}

VisionInit ==
  /\ \E env \in VisionEnvs :
       cfg = [variant |-> "combined", engine |-> "openai", openaiKey |-> TRUE,
              replicateToken |-> TRUE, validate |-> ValidationEnabled(env), demoMode |-> FALSE,
              VALIDATE_WITH_VISION |-> env]
  /\ generationCount = [s \in {} |-> 0]
  /\ req = [r \in Requests |-> IdleReq]
  /\ last = NoAnswer
  /\ delivered = [s \in Sessions |-> 0]
  /\ arrived = 0
  /\ CONSTRAINTS = DefaultConstraints
  /\ inputs \in { [notes |-> n, recipient |-> ""] : n \in VisionNotes }
  /\ tier = "Starter"
  /\ result = NoResult

\* validateWithVision({ imageDataUrl, mustReflect }) is called
ValidateWithVision ==
  /\ result = NoResult
  /\ result' = validateWithVision(cfg.VALIDATE_WITH_VISION, inputs.notes)
  /\ UNCHANGED <<handlerVars, CONSTRAINTS, inputs, tier>>

\* await openai.responses.create(..) settles
VerifierReturns(text) ==
  /\ result.fn = "validateWithVision" /\ result.pc = "awaiting"
  /\ result' = Verdict(text)
  /\ UNCHANGED <<handlerVars, CONSTRAINTS, inputs, tier>>

VisionNext ==
  \/ ValidateWithVision
  \/ \E text \in VerifierReplies : VerifierReturns(text)

VisionSpec == VisionInit /\ [][VisionNext]_vars

\* ---- C27 ---------------------------------------------------------------------
\* C27: called while VALIDATE_WITH_VISION is not "true" the function returns
\* { ok: true, reason: "disabled" } without calling the verifier; called with
\* empty notes it returns { ok: true, reason: "no_notes" } without calling the
\* verifier; the verifier is called only when verification is enabled and the
\* notes are not empty.
C27_VerificationSkipped ==
  result.fn = "validateWithVision" =>
    LET enabled == toLowerCase(cfg.VALIDATE_WITH_VISION) = "true"
        noNotes == normalizeStr(inputs.notes) = ""
    IN /\ ~enabled => result = Validation("returned", 0, TRUE, "disabled")
       /\ (enabled /\ noNotes) => result = Validation("returned", 0, TRUE, "no_notes")
       /\ result.verifierCalls > 0 => enabled /\ ~noNotes

\* ---- generateWithReplicate of the provider-agnostic endpoint ----------------
\* src/unnamed/part_000:110-162, called by the handler at line 194 inside the
\* try block whose catch answers with the placeholder (lines 227-235).
\* `result` holds the function's position: pc, the number i of polls made,
\* the latest poll reply pred, the URL it returned or the message it threw.
\* `last` holds the handler's answer.

\* for (let i = 0; i < 25; i++)
PollLimit == 25

Prediction(pc, i, pred, url, message) ==
  [fn |-> "generateWithReplicate", pc |-> pc, i |-> i, pred |-> pred,
   url |-> url, message |-> message]

\* a reply of the prediction endpoint: status, output (0 is none), error text
Pred(status, output, error) == [status |-> status, output |-> output, error |-> error]
NoPred == Pred("none", 0, "")

\* "" is a reply without status, "reject" a fetch or json() that throws
PollStatuses == {"", "starting", "processing", "succeeded", "failed", "canceled", "reject"}
PredErrors == {"", "NSFW content detected"}

\* the reply to poll number n; an output URL is named after its poll
PollReply(n, status, hasOutput, error) ==
  Pred(status, IF hasOutput THEN n ELSE 0, error)

\* the replies to the create request
CreateReplies == {"created", "not ok", "no urls.get", "reject"}

\* the handler's answer to what generateWithReplicate did
HandlerAnswer(g) ==
  IF g.pc = "returned" THEN [rec |-> IdleReq, resp |-> ProviderResp(g.url)]
  ELSE IF g.pc = "threw" THEN [rec |-> IdleReq, resp |-> FallbackResp]
  ELSE NoAnswer

\* the token check and the create request
Create(token) ==
  IF ~token THEN Prediction("threw", 0, NoPred, 0, "Missing REPLICATE_API_TOKEN")
  ELSE Prediction("creating", 0, NoPred, 0, "")

\* the create request settles
Created(reply) ==
  IF reply = "reject" THEN Prediction("threw", 0, NoPred, 0, "fetch failed")
  ELSE IF reply = "not ok" THEN Prediction("threw", 0, NoPred, 0, "Replicate create failed")
  ELSE IF reply = "no urls.get"
    THEN Prediction("threw", 0, NoPred, 0, "Replicate response missing urls.get")
  ELSE Prediction("polling", 0, NoPred, 0, "")

\* a loop body that goes on polling after a failed or canceled prediction
PolledIgnoringFailure(i, pred) ==
  IF pred.status = "reject" THEN Prediction("threw", i + 1, pred, 0, "fetch failed")
  ELSE IF pred.status = "succeeded"
    THEN IF pred.output = 0
           THEN Prediction("threw", i + 1, pred, 0, "Replicate succeeded but no output URL")
           ELSE Prediction("returned", i + 1, pred, pred.output, "")
  ELSE IF i + 1 < PollLimit THEN Prediction("polling", i + 1, pred, 0, "")
  ELSE Prediction("threw", i + 1, pred, 0, "Replicate timed out")

\* one pass of the loop body with the reply pred, i polls made before it, and
\* the loop test that follows it
Polled(i, pred) ==
  IF pred.status = "reject" THEN Prediction("threw", i + 1, pred, 0, "fetch failed")
  ELSE IF pred.status = "succeeded"
    THEN IF pred.output = 0
           THEN Prediction("threw", i + 1, pred, 0, "Replicate succeeded but no output URL")
           ELSE Prediction("returned", i + 1, pred, pred.output, "")
  ELSE IF pred.status \in {"failed", "canceled"}
    THEN Prediction("threw", i + 1, pred, 0,
                    IF pred.error # "" THEN pred.error ELSE "Replicate " \o pred.status)
  ELSE IF i + 1 < PollLimit THEN Prediction("polling", i + 1, pred, 0, "")
  ELSE Prediction("threw", i + 1, pred, 0, "Replicate timed out")

PollInit ==
  /\ cfg \in { [variant |-> "agnostic", engine |-> "replicate", openaiKey |-> TRUE,
                replicateToken |-> t, validate |-> FALSE, demoMode |-> FALSE] : t \in BOOLEAN }
  /\ generationCount = [s \in {} |-> 0]
  /\ req = [r \in Requests |-> IdleReq]
  /\ last = NoAnswer
  /\ delivered = [s \in Sessions |-> 0]
  /\ arrived = 0
  /\ CONSTRAINTS = DefaultConstraints
  /\ inputs = [notes |-> "", recipient |-> ""]
  /\ tier = "Starter"
  /\ result = NoResult

\* the handler calls generateWithReplicate({ prompt })
GenerateWithReplicate ==
  /\ result = NoResult
  /\ result' = Create(cfg.replicateToken)
  /\ last' = HandlerAnswer(result')
  /\ arrived' = arrived + 1
  /\ UNCHANGED <<cfg, generationCount, req, delivered, CONSTRAINTS, inputs, tier>>

\* await fetch(createUrl, ..) and createRes.json() settle
CreateReturns(reply) ==
  /\ result.fn = "generateWithReplicate" /\ result.pc = "creating"
  /\ result' = Created(reply)
  /\ last' = HandlerAnswer(result')
  /\ UNCHANGED <<cfg, generationCount, req, delivered, arrived, CONSTRAINTS, inputs, tier>>

\* the timer fires, await fetch(getUrl, ..) and pollRes.json() settle
PollReturns(status, hasOutput, error) ==
  /\ result.fn = "generateWithReplicate" /\ result.pc = "polling"
  /\ result.i < PollLimit
  /\ result' = Polled(result.i, PollReply(result.i + 1, status, hasOutput, error))
  /\ last' = HandlerAnswer(result')
  /\ UNCHANGED <<cfg, generationCount, req, delivered, arrived, CONSTRAINTS, inputs, tier>>

PollNext ==
  \/ GenerateWithReplicate
  \/ \E reply \in CreateReplies : CreateReturns(reply)
  \/ \E status \in PollStatuses, hasOutput \in BOOLEAN, error \in PredErrors :
       PollReturns(status, hasOutput, error)

PollSpec == PollInit /\ [][PollNext]_vars

\* the timer and the requests settle: every pending await is resumed
PollFairSpec == PollSpec /\ WF_vars(PollNext)

\* ---- C26 ---------------------------------------------------------------------
Terminal == {"succeeded", "failed", "canceled"}

\* the function has returned or thrown and the handler has answered
Terminated ==
  /\ result.fn = "generateWithReplicate"
  /\ result.pc \in {"returned", "threw"}
  /\ last # NoAnswer

\* never more than 25 polls, and another poll only after a reply that is
\* neither terminal nor an exception
PollsBounded ==
  /\ result.i \in 0..PollLimit
  /\ result.pred = NoPred <=> result.i = 0
  /\ result.pc = "polling" =>
       result.i < PollLimit /\ result.pred.status \notin Terminal \cup {"reject"}

\* failed or canceled ends the function with an error that is not the time-out
FailsOnFailed ==
  result.pred.status \in {"failed", "canceled"} =>
    result.pc = "threw" /\ result.message # "Replicate timed out"

\* the time-out is thrown exactly when the 25th reply is not terminal either
TimesOutAfterLimit ==
  (result.pc = "threw" /\ result.message = "Replicate timed out")
    <=> (result.i = PollLimit /\ result.pred.status \notin Terminal \cup {"reject"})

\* the handler answers: the URL as returned, the placeholder after any throw
HandlerFallsBack ==
  /\ result.pc = "returned" =>
       last.resp = ProviderResp(result.url) /\ result.url = result.pred.output
                                            /\ result.url = result.i
  /\ result.pc = "threw" => last.resp = FallbackResp
  /\ result.pc \in {"creating", "polling"} => last = NoAnswer

\* the first poll reporting succeeded ends the function by returning
ReturnsOnSucceeded ==
  result.pred.status = "succeeded" => result.pc = "returned"

\* ... by returning the output URL if the reply has one, by throwing if not
ReturnsOnSucceededWithOutput ==
  /\ result.pc = "returned" => result.pred.status = "succeeded"
  /\ result.pred.status = "succeeded" =>
       IF result.pred.output # 0 THEN result.pc = "returned"
       ELSE result.pc = "threw" /\ result.message = "Replicate succeeded but no output URL"

\* C26 as stated: generateWithReplicate always terminates; it polls at most 25
\* times, returns the output URL on the first poll reporting succeeded, fails
\* on the first poll reporting failed or canceled, fails with "Replicate timed
\* out" when none of the 25 polls is terminal, and after each failure the
\* handler answers with the placeholder.
C26_PollingTerminatesReturningOnSucceeded ==
  /\ [](result.fn = "generateWithReplicate" =>
          /\ PollsBounded /\ ReturnsOnSucceeded /\ FailsOnFailed
          /\ TimesOutAfterLimit /\ HandlerFallsBack)
  /\ <>Terminated

\* C26 amended: as above, but the first poll reporting succeeded returns the
\* output URL only if the reply carries one; a succeeded reply without output
\* makes the function throw "Replicate succeeded but no output URL", which the
\* handler answers with the placeholder like every other failure.
C26_PollingTerminates ==
  /\ [](result.fn = "generateWithReplicate" =>
          /\ PollsBounded /\ ReturnsOnSucceededWithOutput /\ FailsOnFailed
          /\ TimesOutAfterLimit /\ HandlerFallsBack)
  /\ <>Terminated

\* the 25th poll was not terminal and the handler answered with the placeholder
C26_Witness ==
  /\ result.fn = "generateWithReplicate"
  /\ result.i = PollLimit
  /\ result.message = "Replicate timed out"
  /\ last.resp = FallbackResp

\* ---- the handlers once more: backend calls per session, success answers -----
\* The handlers of Spec, run with a tally of the backend generate calls made
\* on behalf of each session.
CallsInit ==
  /\ cfg \in Configs
  /\ generationCount = [s \in {} |-> 0]
  /\ req = [r \in Requests |-> IdleReq]
  /\ last = NoAnswer
  /\ delivered = [s \in Sessions |-> 0]
  /\ arrived = 0
  /\ CONSTRAINTS = DefaultConstraints
  /\ inputs = NoInputs
  /\ tier = "Curated"
  /\ result = [fn |-> "backendCalls", n |-> [s \in Sessions |-> 0]]

CallsSpec == CallsInit /\ [][Next]_vars

\* ---- C28 ---------------------------------------------------------------------
\* C28: the backend generate calls made on behalf of one sessionId never
\* exceed MAX_GENERATIONS * K in total, over any sequence of requests and
\* whatever the backend and the verifier answer.
C28_BackendCallsPerSessionBounded ==
  \A s \in Sessions : result.n[s] <= MAX_GENERATIONS * maxAttempts

\* ---- C29 ---------------------------------------------------------------------
\* C29: every success answer (status 200 with the usage count) carries a
\* non-empty imageUrl, and every step that changes the stored count of a
\* session sends such an answer: an empty backend output produces neither.
C29_SuccessCarriesImage ==
  [][ ( \/ (Answers /\ last'.resp.status = 200 /\ last'.resp.used # NoUsed)
        \/ generationCount' # generationCount )
      => (Answers /\ last'.resp.imageUrl >= 1) ]_vars

====
